---- MODULE Spec2Model ----
(***************************************************************************)
(* A model of opti2025's reversible-mutation engines: Cleanup              *)
(* (cleanup.py), Performance (performance.py) and MaxPerformance           *)
(* (max_performance.py).  The operating system (registry, services, power  *)
(* schemes, file system, clock) is the environment; each exported function *)
(* of the three modules is one action.                                     *)
(***************************************************************************)
EXTENDS Integers, Sequences, FiniteSets, TLC

VARIABLES
    platform,   \* sys.platform of the process: "win32" or "posix"
    clock,      \* datetime.now(), in whole seconds
    faultsLeft, \* environment: how many adapter calls may still fail
    run,        \* HKCU\...\Run value "OneDrive": NoneV (absent) or StrV(s)
    bgKey,      \* whether the BackgroundAccessApplications key exists
    bg,         \* its value GlobalUserDisabled: NoneV (absent) or IntV(n)
    odProc,     \* whether a OneDrive.exe process is running
    svc,        \* service name -> [start_type, running]
    power,      \* [active |-> scheme id, high |-> label of the high-performance scheme]
    perfRoot,   \* ~/.opti2025/performance_backups
    maxRoot,    \* ~/.opti2025/max_backups
    safeRoot,   \* ~/.opti2025/safe_backups
    env,        \* os.environ: TEMP, TMP, WINDIR
    tdirs,      \* the directories the environment variables can name
    limit,      \* environment: how many calls this behaviour makes
    last,       \* the last call: its name, whether it raised, its result, its adapter calls
    failed,     \* environment: the adapter calls that failed in the last call
    calls,      \* history of the calls made so far
    os0,        \* the state of the targets before the first call
    ui          \* the main window: the position of its running handler, the
                \* answers its dialogs returned, the text of its summary labels

vars == <<platform, clock, faultsLeft, limit, run, bgKey, bg, odProc, svc, power,
          perfRoot, maxRoot, safeRoot, env, tdirs, last, failed, calls, os0, ui>>

regVars == <<run, bgKey, bg, odProc>>
maxVars == <<svc, power>>
fsVars  == <<safeRoot, env, tdirs>>

----------------------------------------------------------------------------
(* Bounds of the model.                                                    *)

MaxCallsPerf == 2   \* calls of apply/restore in a behaviour of Performance
MaxCallsMax  == 2   \* ... of MaxPerformance
MaxCallsBoth == 4   \* ... of Performance and MaxPerformance together
MaxCallsSafe == 2   \* ... of Cleanup
MaxCallsAll  == 2   \* ... of the three profiles together
MaxCallsEnv  == 3   \* ... of Performance, with another program writing the Run value
MaxCallsSeq  == 3   \* ... of Cleanup, from an empty backup root
MaxCallsRec  == 2   \* ... restores of Performance and MaxPerformance
MaxCallsUI   == 2   \* ... applies started from the main window
MaxFaultsRec == 2   \* adapter calls that may fail in a behaviour of restores
MaxTicks  == 1      \* seconds the clock may advance
MaxFaults == 1      \* adapter calls that may fail in one behaviour
ClockStart == 9     \* the second at which a behaviour starts

----------------------------------------------------------------------------
(* Python / JSON values.                                                   *)

NoneV     == [t |-> "none"]
StrV(s)   == [t |-> "str", v |-> s]
IntV(n)   == [t |-> "int", n |-> n]
BoolV(b)  == [t |-> "bool", b |-> b]
ObjV(f)   == [t |-> "obj", f |-> f]

EmptyFn == [k \in {} |-> NoneV]
Put(f, k, v) == [y \in (DOMAIN f) \cup {k} |-> IF y = k THEN v ELSE f[y]]
Range(s) == {s[i] : i \in DOMAIN s}

\* isinstance(v, str), isinstance(v, int) (a bool is an int), isinstance(v, dict)
IsStr(v)  == v.t = "str"
IsInt(v)  == v.t \in {"int", "bool"}
IsDict(v) == v.t = "obj"

\* A truth test that only asks "is not None"
Truthy_is_not_None(v) == v.t # "none"

\* bool(v): None, "", 0, False and {} are falsy
Truthy(v) ==
    CASE v.t = "none" -> FALSE
      [] v.t = "str"  -> v.v # <<>>
      [] v.t = "int"  -> v.n # 0
      [] v.t = "bool" -> v.b
      [] v.t = "obj"  -> DOMAIN v.f # {}

\* dict.get(key): None when the key is missing
Get(obj, key) == IF key \in DOMAIN obj.f THEN obj.f[key] ELSE NoneV

Err(msg, subj) == [msg |-> msg, subj |-> subj]

----------------------------------------------------------------------------
(* Session directories.                                                    *)

\* datetime.now().strftime("%Y%m%d_%H%M%S"): fixed-width, zero-padded digits
Timestamp(t) == <<(t \div 10) % 10, t % 10>>

\* str < str of Python: by code point, a proper prefix is smaller
RECURSIVE StrLess(_, _)
StrLess(a, b) ==
    IF a = <<>> THEN b # <<>>
    ELSE IF b = <<>> THEN FALSE
    ELSE IF Head(a) # Head(b) THEN Head(a) < Head(b)
    ELSE StrLess(Tail(a), Tail(b))

File == [kind |-> "file"]
Dir(manifest, sub) == [kind |-> "dir", manifest |-> manifest, sub |-> sub]
AbsentRoot == [exists |-> FALSE, entries |-> EmptyFn]

\* [path for path in backups_root.iterdir() if path.is_dir()]
SessionDirs(root) == {n \in DOMAIN root.entries : root.entries[n].kind = "dir"}

\* The first of the names in ascending order
Latest_ascending(names) == CHOOSE n \in names : \A m \in names : m = n \/ StrLess(n, m)

\* sorted(..., reverse=True)[0]
Latest(names) == CHOOSE n \in names : \A m \in names : m = n \/ StrLess(m, n)

\* The head of every restore: NoneV when the root is absent or holds no
\* directory, else the name of the latest session
latest_backup(root) ==
    IF ~root.exists THEN NoneV
    ELSE IF SessionDirs(root) = {} THEN NoneV
    ELSE StrV(Latest(SessionDirs(root)))

\* _read_manifest: {} when manifest.json does not exist
read_manifest(root, name) ==
    LET m == root.entries[name].manifest
    IN  IF m = NoneV THEN ObjV(EmptyFn) ELSE m

\* backup_root.mkdir(parents=True, exist_ok=True)
mkdir_session(root, name) ==
    [exists  |-> TRUE,
     entries |-> IF name \in DOMAIN root.entries THEN root.entries
                 ELSE Put(root.entries, name, Dir(NoneV, EmptyFn))]

\* _write_manifest: manifest.json of the session is (over)written
write_manifest(root, name, data) ==
    [root EXCEPT !.entries[name].manifest = data]

----------------------------------------------------------------------------
(* Environment: which adapter calls of one call fail.                      *)

\* The subsets of steps of at most k elements
RECURSIVE UpTo(_, _)
UpTo(steps, k) ==
    IF k = 0 THEN {{}}
    ELSE LET smaller == UpTo(steps, k - 1)
         IN  smaller \cup {s \cup {x} : s \in smaller, x \in steps}

Faults(steps) == UpTo(steps, faultsLeft)

\* The adapter calls of Performance and MaxPerformance: none is made when
\* _ensure_windows refuses the platform
OnWindows(steps) == IF platform = "win32" THEN steps ELSE {}

\* _ensure_windows
ensure_windows(msg) ==
    IF platform # "win32" THEN [ok |-> FALSE, errors |-> <<Err(msg, "")>>]
    ELSE [ok |-> TRUE, errors |-> <<>>]

OSState == [run |-> run, bgKey |-> bgKey, bg |-> bg, svc |-> svc, power |-> power.active,
            tdirs |-> tdirs]

Call(op, f) == [op |-> op, ok |-> f = {}]

Record(op, f) ==
    /\ Len(calls) < limit
    /\ calls' = Append(calls, Call(op, f))
    /\ faultsLeft' = faultsLeft - Cardinality(f)
    /\ failed' = f
    /\ ui' = ui

----------------------------------------------------------------------------
(* performance.py                                                          *)

PerfSteps == {"mkdir", "open_run", "delete_run", "create_bg", "set_bg", "taskkill", "write"}
PerfRestoreSteps == {"open_run", "write_run", "create_bg", "write_bg"}

\* _disable_onedrive_run: (disabled, onedrive_value, errors) and the new Run value
disable_onedrive_run(r, f) ==
    IF "open_run" \in f
    THEN [disabled |-> FALSE, value |-> NoneV, run |-> r, log |-> <<"open_run">>,
          errors |-> <<Err("Impossible de modifier l'entree OneDrive", "")>>]
    ELSE IF r = NoneV
    THEN [disabled |-> FALSE, value |-> NoneV, run |-> r, errors |-> <<>>,
          log |-> <<"open_run", "query_run">>]
    ELSE IF "delete_run" \in f
    THEN [disabled |-> FALSE, value |-> r, run |-> r,
          log |-> <<"open_run", "query_run", "delete_run">>,
          errors |-> <<Err("Impossible de modifier l'entree OneDrive", "")>>]
    ELSE [disabled |-> TRUE, value |-> r, run |-> NoneV, errors |-> <<>>,
          log |-> <<"open_run", "query_run", "delete_run">>]

\* A restore that removes the Run value when it finds one and writes the
\* recorded one when it finds none
restore_onedrive_run_toggle(previous_value, r, f) ==
    IF "open_run" \in f \/ "write_run" \in f
    THEN [run |-> r, errors |-> <<Err("Impossible de restaurer OneDrive", "")>>,
          log |-> <<"open_run", "write_run">>]
    ELSE [run |-> IF r = NoneV THEN previous_value ELSE NoneV,
          errors |-> <<>>, log |-> <<"open_run", "write_run">>]

\* A restore that writes (previous_value or "") instead of deleting
restore_onedrive_run_empty(previous_value, r, f) ==
    IF "open_run" \in f \/ "write_run" \in f
    THEN [run |-> r, errors |-> <<Err("Impossible de restaurer OneDrive", "")>>,
          log |-> <<"open_run", "write_run">>]
    ELSE [run |-> IF previous_value = NoneV THEN StrV(<<>>) ELSE previous_value,
          errors |-> <<>>, log |-> <<"open_run", "write_run">>]

\* _restore_onedrive_run: errors and the new Run value
restore_onedrive_run(previous_value, r, f) ==
    IF "open_run" \in f
    THEN [run |-> r, errors |-> <<Err("Impossible de restaurer OneDrive", "")>>,
          log |-> <<"open_run">>]
    ELSE IF previous_value = NoneV
    THEN IF r # NoneV /\ "write_run" \in f
         THEN [run |-> r, errors |-> <<Err("Impossible de restaurer OneDrive", "")>>,
               log |-> <<"open_run", "write_run">>]
         ELSE [run |-> NoneV, errors |-> <<>>, log |-> <<"open_run", "write_run">>]
    ELSE IF "write_run" \in f
    THEN [run |-> r, errors |-> <<Err("Impossible de restaurer OneDrive", "")>>,
          log |-> <<"open_run", "write_run">>]
    ELSE [run |-> previous_value, errors |-> <<>>, log |-> <<"open_run", "write_run">>]

\* _disable_background_apps: (disabled, previous_value, errors), the key and the flag
disable_background_apps(key, flag, f) ==
    IF "create_bg" \in f
    THEN [disabled |-> FALSE, previous |-> NoneV, key |-> key, flag |-> flag,
          log |-> <<"create_bg">>,
          errors |-> <<Err("Impossible de reduire les apps en arriere-plan", "")>>]
    ELSE IF "set_bg" \in f
    THEN [disabled |-> FALSE, previous |-> flag, key |-> TRUE, flag |-> flag,
          log |-> <<"create_bg", "query_bg", "set_bg">>,
          errors |-> <<Err("Impossible de reduire les apps en arriere-plan", "")>>]
    ELSE [disabled |-> TRUE, previous |-> flag, key |-> TRUE, flag |-> IntV(1),
          log |-> <<"create_bg", "query_bg", "set_bg">>,
          errors |-> <<>>]

\* A restore that tests "if not previous_value" instead of "is None": a
\* captured 0 is deleted rather than written back
restore_background_apps_falsy(previous_value, key, flag, f) ==
    IF "create_bg" \in f
    THEN [log |-> <<"create_bg">>, key |-> key, flag |-> flag,
          errors |-> <<Err("Impossible de restaurer les apps en arriere-plan", "")>>]
    ELSE IF ~Truthy(previous_value)
    THEN [log |-> <<"create_bg", "write_bg">>, key |-> TRUE, flag |-> NoneV, errors |-> <<>>]
    ELSE IF "write_bg" \in f
    THEN [log |-> <<"create_bg", "write_bg">>, key |-> TRUE, flag |-> flag,
          errors |-> <<Err("Impossible de restaurer les apps en arriere-plan", "")>>]
    ELSE [log |-> <<"create_bg", "write_bg">>, key |-> TRUE, flag |-> previous_value, errors |-> <<>>]

\* _restore_background_apps: errors, the key and the flag
restore_background_apps(previous_value, key, flag, f) ==
    IF "create_bg" \in f
    THEN [log |-> <<"create_bg">>, key |-> key, flag |-> flag,
          errors |-> <<Err("Impossible de restaurer les apps en arriere-plan", "")>>]
    ELSE IF previous_value = NoneV
    THEN IF flag # NoneV /\ "write_bg" \in f
         THEN [log |-> <<"create_bg", "write_bg">>, key |-> TRUE, flag |-> flag,
               errors |-> <<Err("Impossible de restaurer les apps en arriere-plan", "")>>]
         ELSE [log |-> <<"create_bg", "write_bg">>, key |-> TRUE, flag |-> NoneV, errors |-> <<>>]
    ELSE IF "write_bg" \in f
    THEN [log |-> <<"create_bg", "write_bg">>, key |-> TRUE, flag |-> flag,
          errors |-> <<Err("Impossible de restaurer les apps en arriere-plan", "")>>]
    ELSE [log |-> <<"create_bg", "write_bg">>, key |-> TRUE, flag |-> previous_value, errors |-> <<>>]

\* _stop_onedrive_process: taskkill /IM OneDrive.exe /F; a non-zero return
\* code comes with a message on stderr
stop_onedrive_process(proc, f) ==
    IF proc /\ "taskkill" \notin f
    THEN [stopped |-> TRUE, proc |-> FALSE, errors |-> <<>>]
    ELSE [stopped |-> FALSE, proc |-> proc, errors |-> <<Err("taskkill", "OneDrive.exe")>>]

PerformanceResult(od, bga, stopped, dir, errors) ==
    [onedrive_disabled |-> od, background_apps_disabled |-> bga,
     onedrive_process_stopped |-> stopped, backup_dir |-> dir, errors |-> errors]

Returned(op, res) == [op |-> op, raised |-> FALSE, res |-> res, log |-> <<>>]
Raised(op)        == [op |-> op, raised |-> TRUE, res |-> NoneV, log |-> <<>>]
Logged(op, res, log) == [op |-> op, raised |-> FALSE, res |-> res, log |-> log]
RaisedAfter(op, log) == [op |-> op, raised |-> TRUE, res |-> NoneV, log |-> log]

\* An apply that writes the manifest right after creating the session
perf_apply_log_early(od, ba) ==
    <<"mkdir", "write">> \o od.log \o ba.log \o <<"taskkill">>

\* The adapter calls of apply_performance_profile, in the order of its
\* statements
perf_apply_log(od, ba) ==
    <<"mkdir">> \o od.log \o ba.log \o <<"taskkill", "write">>

\* The adapter calls of restore_latest_performance once a session is found
perf_restore_log(od, ba) == <<"read">> \o od.log \o ba.log

apply_performance_profile ==
    \E f \in Faults(OnWindows(PerfSteps)) :
      LET guard == ensure_windows("Profil Performance disponible uniquement sur Windows.")
          name  == Timestamp(clock)
          made  == mkdir_session(perfRoot, name)
          od    == disable_onedrive_run(run, f)
          ba    == disable_background_apps(bgKey, bg, f)
          st    == stop_onedrive_process(odProc, f)
          manifest == ObjV([onedrive_run_value |-> od.value,
                            background_previous |-> ba.previous])
      IN  /\ Record("apply_performance", f)
          /\ UNCHANGED <<platform, clock, limit, maxVars, maxRoot, fsVars, os0>>
          /\ IF ~guard.ok
             THEN /\ last' = Returned("apply_performance",
                        PerformanceResult(FALSE, FALSE, FALSE, NoneV, guard.errors))
                  /\ UNCHANGED <<regVars, perfRoot>>
             ELSE IF "mkdir" \in f
             THEN /\ last' = RaisedAfter("apply_performance", <<"mkdir">>)
                  /\ UNCHANGED <<regVars, perfRoot>>
             ELSE /\ run' = od.run
                  /\ bgKey' = ba.key
                  /\ bg' = ba.flag
                  /\ odProc' = st.proc
                  /\ IF "write" \in f
                     THEN /\ perfRoot' = made
                          /\ last' = RaisedAfter("apply_performance", perf_apply_log(od, ba))
                     ELSE /\ perfRoot' = write_manifest(made, name, manifest)
                          /\ last' = Logged("apply_performance",
                                PerformanceResult(od.disabled, ba.disabled, st.stopped,
                                    StrV(name), od.errors \o ba.errors \o st.errors),
                                perf_apply_log(od, ba))

restore_latest_performance ==
    \E f \in Faults(OnWindows(PerfRestoreSteps)) :
      LET guard  == ensure_windows("Profil Performance disponible uniquement sur Windows.")
          latest == latest_backup(perfRoot)
          manifest == read_manifest(perfRoot, latest.v)
          v1 == Get(manifest, "onedrive_run_value")
          onedrive_value == IF IsStr(v1) THEN v1 ELSE NoneV
          v2 == Get(manifest, "background_previous")
          background_value == IF IsInt(v2) THEN v2 ELSE NoneV
          od == restore_onedrive_run(onedrive_value, run, f)
          ba == restore_background_apps(background_value, bgKey, bg, f)
      IN  /\ Record("restore_performance", f)
          /\ UNCHANGED <<platform, clock, limit, maxVars, perfRoot, maxRoot, fsVars, os0, odProc>>
          /\ IF ~guard.ok
             THEN /\ last' = Returned("restore_performance",
                        PerformanceResult(FALSE, FALSE, FALSE, NoneV, guard.errors))
                  /\ UNCHANGED <<run, bgKey, bg>>
             ELSE IF latest = NoneV
             THEN /\ last' = Returned("restore_performance",
                        PerformanceResult(FALSE, FALSE, FALSE, NoneV,
                            <<Err("Aucune sauvegarde disponible.", "")>>))
                  /\ UNCHANGED <<run, bgKey, bg>>
             ELSE IF ~Truthy(manifest)
             THEN /\ last' = Logged("restore_performance",
                        PerformanceResult(FALSE, FALSE, FALSE, latest,
                            <<Err("Manifest introuvable.", "")>>), <<"read">>)
                  /\ UNCHANGED <<run, bgKey, bg>>
             ELSE /\ run' = od.run
                  /\ bgKey' = ba.key
                  /\ bg' = ba.flag
                  /\ last' = Logged("restore_performance",
                        PerformanceResult(FALSE, FALSE, FALSE, latest,
                            od.errors \o ba.errors), perf_restore_log(od, ba))

\* Time passes between two calls
Tick ==
    /\ clock < ClockStart + MaxTicks
    /\ clock' = clock + 1
    /\ UNCHANGED <<platform, faultsLeft, limit, regVars, maxVars, perfRoot, maxRoot, fsVars,
                   last, failed, calls, os0, ui>>

\* Another program (OneDrive's updater, the user) writes the Run value
\* "OneDrive" between two calls
S_OneDriveUpdated == <<"O", "n", "e", "D", "r", "i", "v", "e", " ", "/", "b">>

external_run_write ==
    /\ platform = "win32"
    /\ \E v \in {StrV(S_OneDriveUpdated), StrV(<<>>)} :
          /\ run # v
          /\ run' = v
    /\ Len(calls) < limit
    /\ calls' = Append(calls, Call("external_run_write", {}))
    /\ UNCHANGED <<platform, clock, faultsLeft, limit, bgKey, bg, odProc, maxVars,
                   perfRoot, maxRoot, fsVars, last, failed, os0, ui>>

----------------------------------------------------------------------------
(* Text: a string is a sequence of characters.                             *)

S_START_TYPE ==
    <<"S","T","A","R","T","_","T","Y","P","E">>
S_STATE ==
    <<"S","T","A","T","E">>
S_RUNNING ==
    <<"R","U","N","N","I","N","G">>
S_GUID ==
    <<"G","U","I","D",":">>
S_AUTO_START ==
    <<"A","U","T","O","_","S","T","A","R","T">>
S_DEMAND_START ==
    <<"D","E","M","A","N","D","_","S","T","A","R","T">>
S_DISABLED ==
    <<"D","I","S","A","B","L","E","D">>
S_AUTO ==
    <<"A","U","T","O">>
S_DEMAND ==
    <<"D","E","M","A","N","D">>
S_auto ==
    <<"a","u","t","o">>
S_demand ==
    <<"d","e","m","a","n","d">>
S_disabled ==
    <<"d","i","s","a","b","l","e","d">>
S_STOPPED ==
    <<"S","T","O","P","P","E","D">>
S_WSearch ==
    <<"W","S","e","a","r","c","h">>
S_SysMain ==
    <<"S","y","s","M","a","i","n">>
S_DiagTrack ==
    <<"D","i","a","g","T","r","a","c","k">>
S_SERVICE_NAME ==
    <<"S","E","R","V","I","C","E","_","N","A","M","E",":"," ">>
S_TYPE_LINE ==
    <<" "," "," "," "," "," "," "," ","T","Y","P","E"," "," "," "," "," "," "," "," "," ",
          " "," "," "," "," "," ",":"," ","2","0"," "," ","W","I","N","3","2","_","S","H",
          "A","R","E","_","P","R","O","C","E","S","S">>
S_QC_OK ==
    <<"[","S","C","]"," ","Q","u","e","r","y","S","e","r","v","i","c","e","C","o","n","f",
          "i","g"," ","S","U","C","C","E","S","S">>
S_HighPerformance ==
    <<"H","i","g","h"," ","p","e","r","f","o","r","m","a","n","c","e">>
S_PerformancesElevees ==
    <<"P","e","r","f","o","r","m","a","n","c","e","s"," ","e_acute","l","e","v","e_acute",
          "e","s">>
S_AltoRendimiento ==
    <<"A","l","t","o"," ","r","e","n","d","i","m","i","e","n","t","o">>
S_Balanced ==
    <<"B","a","l","a","n","c","e","d">>
S_PowerSchemeGuid ==
    <<"P","o","w","e","r"," ","S","c","h","e","m","e"," ","G","U","I","D",":"," ">>
S_ListHeader ==
    <<"E","x","i","s","t","i","n","g"," ","P","o","w","e","r"," ","S","c","h","e","m","e",
          "s"," ","(","*"," ","A","c","t","i","v","e",")">>
GuidBalanced ==
    <<"3","8","1","b","4","2","2","2","-","f","6","9","4","-","4","1","f","0","-","9","6",
          "8","5","-","f","f","5","b","b","2","6","0","d","f","2","e">>
GuidHigh ==
    <<"8","c","5","e","7","f","d","a","-","e","8","b","f","-","4","a","9","6","-","9","a",
          "8","5","-","a","6","e","2","3","a","8","c","6","3","5","c">>

Lowers == <<"a","b","c","d","e","f","g","h","i","j","k","l","m",
            "n","o","p","q","r","s","t","u","v","w","x","y","z">>
Uppers == <<"A","B","C","D","E","F","G","H","I","J","K","L","M",
            "N","O","P","Q","R","S","T","U","V","W","X","Y","Z">>
Digits == {"0","1","2","3","4","5","6","7","8","9"}
HexDash == Digits \cup {"a","b","c","d","e","f","A","B","C","D","E","F","-"}
WordChars == Range(Lowers) \cup Range(Uppers) \cup Digits \cup {"_"}
Spaces(n) == [i \in 1..n |-> " "]

\* str.upper(), str.lower()
Upper(s) == [i \in DOMAIN s |->
               IF \E k \in DOMAIN Lowers : Lowers[k] = s[i]
               THEN Uppers[CHOOSE k \in DOMAIN Lowers : Lowers[k] = s[i]] ELSE s[i]]
Lower(s) == [i \in DOMAIN s |->
               IF \E k \in DOMAIN Uppers : Uppers[k] = s[i]
               THEN Lowers[CHOOSE k \in DOMAIN Uppers : Uppers[k] = s[i]] ELSE s[i]]

\* sub in s
Contains(s, sub) ==
    \E i \in 1..(Len(s) - Len(sub) + 1) : SubSeq(s, i, i + Len(sub) - 1) = sub

\* Regular expressions: a pattern is a sequence of character classes, each
\* matched once or (star) any number of times
One(cs)  == <<[cs |-> cs, star |-> FALSE]>>
Star(cs) == <<[cs |-> cs, star |-> TRUE]>>
Plus(cs) == One(cs) \o Star(cs)
Lit(s)   == [i \in DOMAIN s |-> [cs |-> {s[i]}, star |-> FALSE]]
Rep(cs, n) == [i \in 1..n |-> [cs |-> cs, star |-> FALSE]]

\* The positions at which a match of pat[k..] that starts at s[i] can end
RECURSIVE MatchEnds(_, _, _, _)
MatchEnds(pat, k, s, i) ==
    IF k > Len(pat) THEN {i}
    ELSE IF pat[k].star
    THEN MatchEnds(pat, k + 1, s, i)
         \cup (IF i <= Len(s) /\ s[i] \in pat[k].cs
               THEN MatchEnds(pat, k, s, i + 1) ELSE {})
    ELSE IF i <= Len(s) /\ s[i] \in pat[k].cs
    THEN MatchEnds(pat, k + 1, s, i + 1) ELSE {}

SetMin(S) == CHOOSE x \in S : \A y \in S : x <= y
SetMax(S) == CHOOSE x \in S : \A y \in S : x >= y

\* re.search(prefix (group), s).group(1): NoneV when nothing matches, else
\* the text of the group of the leftmost, greedy match
re_search(prefix, group, s) ==
    LET GroupStarts(i) == {p \in MatchEnds(prefix, 1, s, i) : MatchEnds(group, 1, s, p) # {}}
        starts == {i \in 1..(Len(s) + 1) : GroupStarts(i) # {}}
    IN  IF starts = {} THEN NoneV
        ELSE LET p == SetMax(GroupStarts(SetMin(starts)))
             IN  StrV(SubSeq(s, p, SetMax(MatchEnds(group, 1, s, p)) - 1))

----------------------------------------------------------------------------
(* The operating system as max_performance.py sees it through sc.exe and   *)
(* powercfg.                                                               *)

SERVICE_TARGETS == <<"WSearch", "SysMain", "DiagTrack">>

ServiceChars(x) ==
    CASE x = "WSearch" -> S_WSearch [] x = "SysMain" -> S_SysMain [] x = "DiagTrack" -> S_DiagTrack

StartWord(t) ==
    CASE t = "AUTO_START" -> S_AUTO_START
      [] t = "DEMAND_START" -> S_DEMAND_START
      [] t = "DISABLED" -> S_DISABLED
StartCode(t) ==
    CASE t = "AUTO_START" -> "2" [] t = "DEMAND_START" -> "3" [] t = "DISABLED" -> "4"

\* stdout of "sc.exe qc <service>", line by line
sc_qc_stdout(x, start_type) ==
    << S_QC_OK,
       S_SERVICE_NAME \o ServiceChars(x),
       S_TYPE_LINE,
       Spaces(8) \o S_START_TYPE \o Spaces(9) \o <<":", " ", StartCode(start_type)>>
           \o Spaces(3) \o StartWord(start_type) >>

\* stdout of "sc.exe query <service>", line by line
sc_query_stdout(x, running) ==
    << S_SERVICE_NAME \o ServiceChars(x),
       S_TYPE_LINE,
       Spaces(8) \o S_STATE \o Spaces(14)
           \o (IF running THEN <<":", " ", "4", " ", " ">> \o S_RUNNING
               ELSE <<":", " ", "1", " ", " ">> \o S_STOPPED) >>

\* "sc.exe config <service> start=<arg>": the start types sc.exe accepts
sc_config(s, x, arg) ==
    IF arg = S_auto THEN [ok |-> TRUE, svc |-> [s EXCEPT ![x].start_type = "AUTO_START"]]
    ELSE IF arg = S_demand THEN [ok |-> TRUE, svc |-> [s EXCEPT ![x].start_type = "DEMAND_START"]]
    ELSE IF arg = S_disabled THEN [ok |-> TRUE, svc |-> [s EXCEPT ![x].start_type = "DISABLED"]]
    ELSE [ok |-> FALSE, svc |-> s]

\* "sc.exe start <service>": a disabled service cannot be started
sc_start(s, x) ==
    IF s[x].start_type = "DISABLED" THEN [ok |-> FALSE, svc |-> s]
    ELSE [ok |-> TRUE, svc |-> [s EXCEPT ![x].running = TRUE]]

SchemeGuid(id) == IF id = "high" THEN GuidHigh ELSE GuidBalanced
HighLabel(locale) ==
    CASE locale = "en" -> S_HighPerformance
      [] locale = "fr" -> S_PerformancesElevees
      [] locale = "es" -> S_AltoRendimiento
SchemeLabel(pw, id) == IF id = "high" THEN HighLabel(pw.high) ELSE S_Balanced
SchemeLine(pw, id) ==
    S_PowerSchemeGuid \o SchemeGuid(id) \o <<" ", " ", "(">> \o SchemeLabel(pw, id) \o <<")">>
        \o (IF pw.active = id THEN <<" ", "*">> ELSE <<>>)

\* stdout of "powercfg /getactivescheme"
powercfg_getactivescheme_stdout(pw) ==
    S_PowerSchemeGuid \o SchemeGuid(pw.active) \o <<" ", " ", "(">>
        \o SchemeLabel(pw, pw.active) \o <<")">>

\* stdout of "powercfg /list", line by line
powercfg_list_stdout(pw) ==
    <<S_ListHeader, SchemeLine(pw, "balanced")>>
        \o (IF pw.high = "none" THEN <<>> ELSE <<SchemeLine(pw, "high")>>)

StartTypes == {"AUTO_START", "DEMAND_START", "DISABLED"}
PowerStates == {pw \in [active : {"balanced", "high"}, high : {"en", "fr", "es", "none"}] :
                  pw.active = "high" => pw.high # "none"}

\* "powercfg /setactive <guid>"
powercfg_setactive(pw, guid) ==
    IF guid = GuidBalanced THEN [ok |-> TRUE, power |-> [pw EXCEPT !.active = "balanced"]]
    ELSE IF guid = GuidHigh /\ pw.high # "none"
    THEN [ok |-> TRUE, power |-> [pw EXCEPT !.active = "high"]]
    ELSE [ok |-> FALSE, power |-> pw]

----------------------------------------------------------------------------
(* max_performance.py                                                      *)

\* r"START_TYPE\\s*:\\s*\\d+\\s+(\\w+)": in a raw string "\\s" is a backslash
\* followed by the letter s, not the class \s
StartTypePrefix ==
    Lit(S_START_TYPE) \o One({"\\"}) \o Star({"s"}) \o One({":"}) \o One({"\\"}) \o Star({"s"})
        \o One({"\\"}) \o Plus({"d"}) \o One({"\\"}) \o Plus({"s"})
StartTypeGroup == One({"\\"}) \o Plus({"w"})

\* r"GUID:\\s*([0-9a-fA-F-]+)"
ActiveSchemePrefix == Lit(S_GUID) \o One({"\\"}) \o Star({"s"})
ActiveSchemeGroup == Plus(HexDash)

\* r"([0-9a-fA-F-]{36})"
GuidGroup == Rep(HexDash, 36)

\* A function evaluated once, as a table
Table(fn) == fn @@ EmptyFn

\* The first line of stdout that holds needle, as a one-element sequence
FirstLineWith(lines, needle) ==
    LET hits == {i \in DOMAIN lines : Contains(lines[i], needle)}
    IN  IF hits = {} THEN <<>> ELSE <<lines[SetMin(hits)]>>

\* The first match of a pattern over the lines that hold one of the needles
RECURSIVE FirstMatch(_, _, _, _)
FirstMatch(lines, needles, prefix, group) ==
    IF lines = <<>> THEN NoneV
    ELSE LET m == IF \E n \in needles : Contains(Head(lines), n)
                  THEN re_search(prefix, group, Head(lines)) ELSE NoneV
         IN  IF m # NoneV THEN m ELSE FirstMatch(Tail(lines), needles, prefix, group)

\* What _query_service_start_type parses out of the stdout of a successful
\* "sc.exe qc", for every service and start type
ParsedStartType ==
    Table([x \in Range(SERVICE_TARGETS), t \in StartTypes |->
        FirstMatch(sc_qc_stdout(x, t), {S_START_TYPE}, StartTypePrefix, StartTypeGroup)])

\* _query_service_start_type
query_service_start_type(x, f) ==
    IF <<"qc", x>> \in f THEN NoneV ELSE ParsedStartType[x, svc[x].start_type]

\* What _query_service_running parses out of the stdout of a successful
\* "sc.exe query"
ParsedRunning ==
    Table([x \in Range(SERVICE_TARGETS), r \in BOOLEAN |->
        LET line == FirstLineWith(sc_query_stdout(x, r), S_STATE)
        IN  IF line = <<>> THEN NoneV ELSE BoolV(Contains(line[1], S_RUNNING))])

\* _query_service_running
query_service_running(x, f) ==
    IF <<"query", x>> \in f THEN NoneV ELSE ParsedRunning[x, svc[x].running]

\* _set_service_start_type
set_service_start_type(s, x, start_type, f) ==
    IF <<"config", x>> \in f THEN [ok |-> FALSE, svc |-> s] ELSE sc_config(s, x, start_type)

\* _stop_service
stop_service(s, x, f) ==
    IF <<"stop", x>> \in f THEN [ok |-> FALSE, svc |-> s]
    ELSE [ok |-> TRUE, svc |-> [s EXCEPT ![x].running = FALSE]]

\* _start_service
start_service(s, x, f) ==
    IF <<"start", x>> \in f THEN [ok |-> FALSE, svc |-> s] ELSE sc_start(s, x)

\* _normalize_start_type
normalize_start_type(start_type) ==
    LET u == Upper(start_type)
    IN  CASE u = S_AUTO_START   -> S_auto
          [] u = S_DEMAND_START -> S_demand
          [] u = S_DISABLED     -> S_disabled
          [] u = S_AUTO         -> S_auto
          [] u = S_DEMAND       -> S_demand
          [] OTHER              -> Lower(start_type)

\* What _get_active_power_scheme parses out of the stdout of a successful
\* "powercfg /getactivescheme"
ParsedActiveScheme ==
    Table([pw \in PowerStates |->
        re_search(ActiveSchemePrefix, ActiveSchemeGroup, powercfg_getactivescheme_stdout(pw))])

\* _get_active_power_scheme
get_active_power_scheme(f) ==
    IF <<"getactive", "">> \in f THEN NoneV ELSE ParsedActiveScheme[power]

\* What _find_high_performance_scheme parses out of the stdout of a
\* successful "powercfg /list"
ParsedHighScheme ==
    Table([pw \in PowerStates |->
        FirstMatch(powercfg_list_stdout(pw), {S_HighPerformance, S_PerformancesElevees},
                   <<>>, GuidGroup)])

\* _find_high_performance_scheme
find_high_performance_scheme(f) ==
    IF <<"list", "">> \in f THEN NoneV ELSE ParsedHighScheme[power]

\* _set_power_scheme
set_power_scheme(pw, scheme_guid, f) ==
    IF <<"setactive", "">> \in f THEN [ok |-> FALSE, power |-> pw]
    ELSE powercfg_setactive(pw, scheme_guid)

MaxServiceSteps == {<<k, SERVICE_TARGETS[i]>> : k \in {"qc", "query", "stop", "config"},
                                                i \in DOMAIN SERVICE_TARGETS}
MaxSteps == MaxServiceSteps
            \cup {<<k, "">> : k \in {"mkdir", "getactive", "list", "setactive",
                                     "open_run", "delete_run", "taskkill",
                                     "taskkill_quiet", "write"}}
MaxRestoreSteps == {<<k, SERVICE_TARGETS[i]>> : k \in {"config", "start"},
                                                i \in DOMAIN SERVICE_TARGETS}
                   \cup {<<k, "">> : k \in {"setactive", "open_run", "write_run"}}

\* Only a call that is made can fail: a stop, config or start that fails is
\* among the calls issued, a setactive that fails follows a scheme to set
Made(f, log, scheme) ==
    \A s \in f :
        /\ s[1] \in {"stop", "config", "start"} => s \in Range(log)
        /\ s[1] = "setactive" => scheme

\* The body of the loop "for service_name in SERVICE_TARGETS" of
\* apply_max_performance_profile, for one service
apply_service(x, acc, f) ==
    LET start_type == query_service_start_type(x, f)
        running    == query_service_running(x, f)
        queried    == acc.log \o << <<"qc", x>>, <<"query", x>> >>
        stopped    == IF running.b THEN stop_service(acc.svc, x, f)
                      ELSE [ok |-> TRUE, svc |-> acc.svc]
        set        == set_service_start_type(stopped.svc, x, S_disabled, f)
        issued     == queried \o (IF running.b THEN << <<"stop", x>> >> ELSE <<>>)
                              \o << <<"config", x>> >>
    IN  IF start_type = NoneV \/ running = NoneV
        THEN [acc EXCEPT !.log = queried,
                         !.errors = Append(@, Err("Impossible de lire l'etat du service", x))]
        ELSE [states   |-> Put(acc.states, x,
                               ObjV([start_type |-> start_type, was_running |-> running])),
              disabled |-> IF set.ok THEN Append(acc.disabled, x) ELSE acc.disabled,
              indexing |-> IF set.ok /\ x = "WSearch" THEN TRUE ELSE acc.indexing,
              errors   |-> IF set.ok THEN acc.errors
                           ELSE Append(acc.errors, Err("Impossible de desactiver le service", x)),
              svc      |-> set.svc,
              log      |-> issued]

\* A loop that stops ("break") at the first service it cannot read
RECURSIVE apply_services_break(_, _, _)
apply_services_break(xs, acc, f) ==
    IF xs = <<>> THEN acc
    ELSE LET next == apply_service(Head(xs), acc, f)
         IN  IF Len(next.errors) > Len(acc.errors) /\ Head(xs) \notin DOMAIN next.states
             THEN next
             ELSE apply_services_break(Tail(xs), next, f)

RECURSIVE apply_services(_, _, _)
apply_services(xs, acc, f) ==
    IF xs = <<>> THEN acc
    ELSE apply_services(Tail(xs), apply_service(Head(xs), acc, f), f)

\* The body of the loop over manifest["services"] of
\* restore_latest_max_performance, for one service
restore_service(x, state, acc, f) ==
    LET start_type  == Get(state, "start_type")
        was_running == Get(state, "was_running")
        set   == IF IsStr(start_type)
                 THEN set_service_start_type(acc.svc, x, normalize_start_type(start_type.v), f)
                 ELSE [ok |-> TRUE, svc |-> acc.svc]
        start == IF was_running = BoolV(TRUE) THEN start_service(set.svc, x, f)
                 ELSE [ok |-> TRUE, svc |-> set.svc]
    IN  IF ~IsDict(state) THEN acc
        ELSE [svc    |-> start.svc,
              errors |-> IF set.ok THEN acc.errors
                         ELSE Append(acc.errors, Err("Impossible de restaurer le service", x)),
              log    |-> acc.log
                         \o (IF IsStr(start_type) THEN << <<"config", x>> >> ELSE <<>>)
                         \o (IF was_running = BoolV(TRUE) THEN << <<"start", x>> >> ELSE <<>>)]

\* A loop that stops at the first service it cannot restore
RECURSIVE restore_services_break(_, _, _, _)
restore_services_break(xs, services_state, acc, f) ==
    IF xs = <<>> THEN acc
    ELSE LET next == IF Head(xs) \in DOMAIN services_state.f
                     THEN restore_service(Head(xs), services_state.f[Head(xs)], acc, f)
                     ELSE acc
         IN  IF Len(next.errors) > Len(acc.errors) THEN next
             ELSE restore_services_break(Tail(xs), services_state, next, f)

RECURSIVE restore_services(_, _, _, _)
restore_services(xs, services_state, acc, f) ==
    IF xs = <<>> THEN acc
    ELSE restore_services(Tail(xs), services_state,
             IF Head(xs) \in DOMAIN services_state.f
             THEN restore_service(Head(xs), services_state.f[Head(xs)], acc, f)
             ELSE acc, f)

\* _disable_onedrive_run of max_performance.py
max_disable_onedrive_run(r, f) ==
    IF <<"open_run", "">> \in f
    THEN [log |-> <<<<"open_run", "">>>>,
          disabled |-> FALSE, value |-> NoneV, run |-> r,
          errors |-> <<Err("Impossible de modifier l'entree OneDrive", "")>>]
    ELSE IF r = NoneV
    THEN [log |-> <<<<"open_run", "">>, <<"query_run", "">>>>,
          disabled |-> FALSE, value |-> NoneV, run |-> r, errors |-> <<>>]
    ELSE IF <<"delete_run", "">> \in f
    THEN [log |-> <<<<"open_run", "">>, <<"query_run", "">>, <<"delete_run", "">>>>,
          disabled |-> FALSE, value |-> r, run |-> r,
          errors |-> <<Err("Impossible de modifier l'entree OneDrive", "")>>]
    ELSE [log |-> <<<<"open_run", "">>, <<"query_run", "">>, <<"delete_run", "">>>>,
          disabled |-> TRUE, value |-> r, run |-> NoneV, errors |-> <<>>]

\* _restore_onedrive_run of max_performance.py
max_restore_onedrive_run(previous_value, r, f) ==
    IF <<"open_run", "">> \in f
    THEN [log |-> <<<<"open_run", "">>>>,
          run |-> r, errors |-> <<Err("Impossible de restaurer OneDrive", "")>>]
    ELSE IF previous_value = NoneV
    THEN IF r # NoneV /\ <<"write_run", "">> \in f
         THEN [log |-> <<<<"open_run", "">>, <<"write_run", "">>>>,
               run |-> r, errors |-> <<Err("Impossible de restaurer OneDrive", "")>>]
         ELSE [log |-> <<<<"open_run", "">>, <<"write_run", "">>>>,
               run |-> NoneV, errors |-> <<>>]
    ELSE IF <<"write_run", "">> \in f
    THEN [log |-> <<<<"open_run", "">>, <<"write_run", "">>>>,
          run |-> r, errors |-> <<Err("Impossible de restaurer OneDrive", "")>>]
    ELSE [log |-> <<<<"open_run", "">>, <<"write_run", "">>>>,
          run |-> previous_value, errors |-> <<>>]

\* _stop_onedrive_process of max_performance.py
max_stop_onedrive_process(proc, f) ==
    IF <<"taskkill_quiet", "">> \in f
    THEN [stopped |-> FALSE, proc |-> proc, errors |-> <<>>]
    ELSE IF proc /\ <<"taskkill", "">> \notin f
    THEN [stopped |-> TRUE, proc |-> FALSE, errors |-> <<>>]
    ELSE [stopped |-> FALSE, proc |-> proc, errors |-> <<Err("taskkill", "OneDrive.exe")>>]

\* The adapter calls of apply_max_performance_profile, in the order of its
\* statements; set_scheme tells whether a high performance scheme was found
max_apply_log(sv, set_scheme, od) ==
    <<<<"mkdir", "">>>> \o sv.log \o <<<<"getactive", "">>, <<"list", "">>>>
    \o (IF set_scheme THEN <<<<"setactive", "">>>> ELSE <<>>)
    \o od.log \o <<<<"taskkill", "">>, <<"write", "">>>>

\* The adapter calls of restore_latest_max_performance once a session is
\* found and its manifest is not empty
max_restore_log(sv, set_scheme, od) ==
    <<<<"read", "">>>> \o sv.log
    \o (IF set_scheme THEN <<<<"setactive", "">>>> ELSE <<>>) \o od.log

MaxPerformanceResult(sd, ix, ps, od, stopped, dir, errors) ==
    [services_disabled |-> sd, indexing_disabled |-> ix, power_scheme_set |-> ps,
     onedrive_disabled |-> od, onedrive_process_stopped |-> stopped,
     backup_dir |-> dir, errors |-> errors]

EmptyMaxResult(dir, errors) ==
    MaxPerformanceResult(<<>>, FALSE, FALSE, FALSE, FALSE, dir, errors)

apply_max_performance_profile ==
    \E f \in Faults(OnWindows(MaxSteps)) :
      LET guard == ensure_windows("Profil Max Performance disponible uniquement sur Windows.")
          name  == Timestamp(clock)
          made  == mkdir_session(maxRoot, name)
          sv    == apply_services(SERVICE_TARGETS,
                       [states |-> EmptyFn, disabled |-> <<>>, indexing |-> FALSE,
                        errors |-> <<>>, svc |-> svc, log |-> <<>>], f)
          previous_scheme  == get_active_power_scheme(f)
          high_perf_scheme == find_high_performance_scheme(f)
          pw == IF Truthy(high_perf_scheme) THEN set_power_scheme(power, high_perf_scheme.v, f)
                ELSE [ok |-> FALSE, power |-> power]
          pw_errors ==
                IF ~Truthy(high_perf_scheme)
                THEN <<Err("Mode Performances elevees indisponible sur ce systeme.", "")>>
                ELSE IF ~pw.ok THEN <<Err("Impossible d'activer le mode Performances elevees.", "")>>
                ELSE <<>>
          od == max_disable_onedrive_run(run, f)
          st == max_stop_onedrive_process(odProc, f)
          manifest == ObjV([services |-> ObjV(sv.states),
                            power_scheme |-> previous_scheme,
                            onedrive_run_value |-> od.value])
      IN  /\ Record("apply_max", f)
          /\ Made(f, sv.log, Truthy(high_perf_scheme))
          /\ UNCHANGED <<platform, clock, limit, bgKey, bg, perfRoot, fsVars, os0>>
          /\ IF ~guard.ok
             THEN /\ last' = Logged("apply_max", EmptyMaxResult(NoneV, guard.errors), <<>>)
                  /\ UNCHANGED <<run, odProc, maxVars, maxRoot>>
             ELSE IF <<"mkdir", "">> \in f
             THEN /\ last' = RaisedAfter("apply_max", <<<<"mkdir", "">>>>)
                  /\ UNCHANGED <<run, odProc, maxVars, maxRoot>>
             ELSE /\ svc' = sv.svc
                  /\ power' = pw.power
                  /\ run' = od.run
                  /\ odProc' = st.proc
                  /\ IF <<"write", "">> \in f
                     THEN /\ maxRoot' = made
                          /\ last' = RaisedAfter("apply_max",
                                max_apply_log(sv, Truthy(high_perf_scheme), od))
                     ELSE /\ maxRoot' = write_manifest(made, name, manifest)
                          /\ last' = Logged("apply_max",
                                MaxPerformanceResult(sv.disabled, sv.indexing, pw.ok,
                                    od.disabled, st.stopped, StrV(name),
                                    sv.errors \o pw_errors \o od.errors \o st.errors),
                                max_apply_log(sv, Truthy(high_perf_scheme), od))

restore_latest_max_performance ==
    \E f \in Faults(OnWindows(MaxRestoreSteps)) :
      LET guard  == ensure_windows("Profil Max Performance disponible uniquement sur Windows.")
          latest == latest_backup(maxRoot)
          manifest == read_manifest(maxRoot, latest.v)
          services_state == Get(manifest, "services")
          sv == IF IsDict(services_state)
                THEN restore_services(SERVICE_TARGETS, services_state,
                         [svc |-> svc, errors |-> <<>>, log |-> <<>>], f)
                ELSE [svc |-> svc, errors |-> <<>>, log |-> <<>>]
          power_scheme == Get(manifest, "power_scheme")
          pw == IF IsStr(power_scheme) THEN set_power_scheme(power, power_scheme.v, f)
                ELSE [ok |-> TRUE, power |-> power]
          pw_errors == IF pw.ok THEN <<>>
                       ELSE <<Err("Impossible de restaurer le plan d'alimentation.", "")>>
          v1 == Get(manifest, "onedrive_run_value")
          onedrive_value == IF IsStr(v1) THEN v1 ELSE NoneV
          od == max_restore_onedrive_run(onedrive_value, run, f)
      IN  /\ Record("restore_max", f)
          /\ IF guard.ok /\ latest # NoneV /\ Truthy(manifest)
             THEN Made(f, sv.log, IsStr(power_scheme))
             ELSE f = {}
          /\ UNCHANGED <<platform, clock, limit, bgKey, bg, odProc, perfRoot, maxRoot, fsVars, os0>>
          /\ IF ~guard.ok
             THEN /\ last' = Logged("restore_max", EmptyMaxResult(NoneV, guard.errors), <<>>)
                  /\ UNCHANGED <<run, maxVars>>
             ELSE IF latest = NoneV
             THEN /\ last' = Logged("restore_max",
                        EmptyMaxResult(NoneV, <<Err("Aucune sauvegarde disponible.", "")>>), <<>>)
                  /\ UNCHANGED <<run, maxVars>>
             ELSE IF ~Truthy(manifest)
             THEN /\ last' = Logged("restore_max",
                        EmptyMaxResult(latest, <<Err("Manifest introuvable.", "")>>),
                        <<<<"read", "">>>>)
                  /\ UNCHANGED <<run, maxVars>>
             ELSE /\ svc' = sv.svc
                  /\ power' = pw.power
                  /\ run' = od.run
                  /\ last' = Logged("restore_max",
                        EmptyMaxResult(latest, sv.errors \o pw_errors \o od.errors),
                        max_restore_log(sv, IsStr(power_scheme), od))

----------------------------------------------------------------------------
(* Paths, as pathlib parses, joins and prints them.                        *)

S_Temp == <<"T", "e", "m", "p">>

PathSeps == IF platform = "win32" THEN {"\\", "/"} ELSE {"/"}
Sep == IF platform = "win32" THEN "\\" ELSE "/"

\* s split at the characters of seps, empty pieces dropped
RECURSIVE SplitAt(_, _, _)
SplitAt(s, seps, piece) ==
    IF s = <<>> THEN (IF piece = <<>> THEN <<>> ELSE <<piece>>)
    ELSE IF Head(s) \in seps
    THEN (IF piece = <<>> THEN <<>> ELSE <<piece>>) \o SplitAt(Tail(s), seps, <<>>)
    ELSE SplitAt(Tail(s), seps, Append(piece, Head(s)))

\* sep.join(pieces)
RECURSIVE JoinWith(_, _)
JoinWith(pieces, sep) ==
    IF pieces = <<>> THEN <<>>
    ELSE IF Len(pieces) = 1 THEN pieces[1]
    ELSE pieces[1] \o sep \o JoinWith(Tail(pieces), sep)

\* Path(s): a drive ("C:", on Windows), a root and the names below it
ParsePath(s) ==
    LET drive == IF platform = "win32" /\ Len(s) >= 2 /\ s[2] = ":"
                 THEN SubSeq(s, 1, 2) ELSE <<>>
        rest  == SubSeq(s, Len(drive) + 1, Len(s))
    IN  [drive |-> drive,
         root  |-> IF rest # <<>> /\ rest[1] \in PathSeps THEN <<Sep>> ELSE <<>>,
         names |-> SplitAt(rest, PathSeps, <<>>)]

\* str(path)
PathStr(p) == p.drive \o p.root \o JoinWith(p.names, <<Sep>>)

\* path.parts: the drive and the root are one part
Parts(p) == (IF p.drive \o p.root = <<>> THEN <<>> ELSE <<p.drive \o p.root>>) \o p.names

\* path / name, for a name that holds neither a drive nor a root
JoinPath(p, s) == [p EXCEPT !.names = @ \o ParsePath(s).names]

\* str.replace(c, "")
Without(s, c) == SelectSeq(s, LAMBDA ch : ch # c)

----------------------------------------------------------------------------
(* cleanup.py                                                              *)

\* _collect_temp_dirs
collect_temp_dirs ==
    LET env_temp == IF Truthy(env.TEMP) THEN env.TEMP ELSE env.TMP
    IN  (IF Truthy(env_temp) THEN <<ParsePath(env_temp.v)>> ELSE <<>>)
        \o (IF Truthy(env.WINDIR) THEN <<JoinPath(ParsePath(env.WINDIR.v), S_Temp)>> ELSE <<>>)

\* _backup_subdir_name
backup_subdir_name(temp_dir) ==
    LET drive == Without(temp_dir.drive, ":")
        parts == <<drive>> \o SelectSeq(Parts(temp_dir),
                                 LAMBDA part : part \notin {temp_dir.drive, temp_dir.root})
    IN  JoinWith(SelectSeq(parts, LAMBDA part : part # <<>>), <<"_">>)

\* backup_root / destination_name, relative to the session directory: the
\* names pathlib splits destination_name into
destination_root(destination_name) == ParsePath(destination_name).names

\* A directory name Windows refuses to create
InvalidName(name) == platform = "win32" /\ ":" \in Range(name)

\* A dict that keeps the order of insertion, as json.dumps writes it
DictV(order, f) == [t |-> "obj", f |-> f, order |-> order]
DictSet(d, k, v) ==
    DictV(IF k \in DOMAIN d.f THEN d.order ELSE Append(d.order, k), Put(d.f, k, v))

\* iterdir(): the entries of a directory, in an order the system chooses
Listing(files) ==
    CHOOSE seq \in [1..Cardinality(DOMAIN files) -> DOMAIN files] : Range(seq) = DOMAIN files

\* _read_manifest of cleanup.py: {} when manifest.json does not exist
cleanup_read_manifest(root, name) ==
    LET m == root.entries[name].manifest
    IN  IF m = NoneV THEN DictV(<<>>, EmptyFn) ELSE m

Remove(f, k) == [y \in (DOMAIN f) \ {k} |-> f[y]]

CleanupResult(scanned, moved, nfailed, skipped, dir, errors) ==
    [scanned |-> scanned, moved |-> moved, failed |-> nfailed, skipped |-> skipped,
     backup_dir |-> dir, errors |-> errors]

\* A loop that counts an entry as scanned only once it has been moved
RECURSIVE move_entries_late(_, _, _, _, _)
move_entries_late(names, i, f, from, acc) ==
    IF names = <<>> THEN acc
    ELSE LET n == Head(names)
         IN  move_entries_late(Tail(names), i, f, from,
                 IF <<"move", i, n>> \in f
                 THEN [acc EXCEPT !.failed = @ + 1,
                                  !.errors = Append(@, Err("move", n)),
                                  !.log = Append(@, <<"move", i, n>>)]
                 ELSE [acc EXCEPT !.scanned = @ + 1, !.moved = @ + 1,
                                  !.log = Append(@, <<"move", i, n>>),
                                  !.left = Remove(@, n),
                                  !.into = Put(@, n, from[n])])

\* The loop "for entry in ....iterdir()" of safe_cleanup and of
\* restore_latest_backup: every entry of from is moved into to, an entry the
\* environment refuses to move stays and is counted as failed
RECURSIVE move_entries(_, _, _, _, _)
move_entries(names, i, f, from, acc) ==
    IF names = <<>> THEN acc
    ELSE LET n == Head(names)
         IN  move_entries(Tail(names), i, f, from,
                 IF <<"move", i, n>> \in f
                 THEN [acc EXCEPT !.scanned = @ + 1, !.failed = @ + 1,
                                  !.errors = Append(@, Err("move", n)),
                                  !.log = Append(@, <<"move", i, n>>)]
                 ELSE [acc EXCEPT !.scanned = @ + 1, !.moved = @ + 1,
                                  !.log = Append(@, <<"move", i, n>>),
                                  !.left = Remove(@, n),
                                  !.into = Put(@, n, from[n])])

\* A skip that reports a missing target like one that cannot be accessed
skip_target_loud(temp_dir, acc) ==
    [acc EXCEPT !.skipped = @ + 1,
                !.errors = Append(@, Err("Acces refuse", PathStr(temp_dir)))]

\* The two "continue" branches of the loop of safe_cleanup: a target that
\* does not exist, a target that cannot be read and written
skip_target(temp_dir, acc) ==
    IF temp_dir \notin DOMAIN acc.dirs
    THEN [acc EXCEPT !.skipped = @ + 1]
    ELSE [acc EXCEPT !.skipped = @ + 1,
                     !.errors = Append(@, Err("Acces refuse", PathStr(temp_dir)))]

\* The body of the loop "for temp_dir in temp_dirs" of safe_cleanup, for the
\* i-th target
cleanup_target(i, temp_dir, session, partial, f, acc) ==
    LET destination_name == backup_subdir_name(temp_dir)
        sub   == destination_root(destination_name)
        made  == mkdir_session(acc.root, session)
        subs  == made.entries[session].sub
        there == IF sub \in DOMAIN subs THEN subs[sub] ELSE EmptyFn
        mv    == move_entries(Listing(acc.dirs[temp_dir].files), i, f,
                     acc.dirs[temp_dir].files,
                     [scanned |-> acc.scanned, moved |-> acc.moved, failed |-> acc.failed,
                      errors |-> acc.errors, left |-> acc.dirs[temp_dir].files,
                      into |-> there, log |-> Append(acc.log, <<"mkdir", i, <<>>>>)])
    IN  IF acc.raised THEN acc
        ELSE IF temp_dir \notin DOMAIN acc.dirs \/ ~acc.dirs[temp_dir].access
        THEN skip_target(temp_dir, acc)
        ELSE IF <<"mkdir", i, <<>>>> \in f
        THEN [acc EXCEPT !.raised = TRUE,
                         !.log = Append(@, <<"mkdir", i, <<>>>>),
                         !.mapping = DictSet(@, destination_name, StrV(PathStr(temp_dir)))]
        ELSE IF \E k \in DOMAIN sub : InvalidName(sub[k])
        THEN [acc EXCEPT !.raised = TRUE,
                         !.log = Append(@, <<"mkdir", i, <<>>>>),
                         !.root = IF partial THEN made ELSE @,
                         !.mapping = DictSet(@, destination_name, StrV(PathStr(temp_dir)))]
        ELSE [acc EXCEPT !.mapping = DictSet(@, destination_name, StrV(PathStr(temp_dir))),
                         !.root = [made EXCEPT !.entries[session].sub = Put(subs, sub, mv.into)],
                         !.dirs = [@ EXCEPT ![temp_dir].files = mv.left],
                         !.scanned = mv.scanned, !.moved = mv.moved,
                         !.failed = mv.failed, !.errors = mv.errors, !.log = mv.log]

RECURSIVE cleanup_targets(_, _, _, _, _, _)
cleanup_targets(i, temp_dirs, session, partial, f, acc) ==
    IF i > Len(temp_dirs) THEN acc
    ELSE cleanup_targets(i + 1, temp_dirs, session, partial, f,
             cleanup_target(i, temp_dirs[i], session, partial, f, acc))

\* What can fail in a call of safe_cleanup: the mkdir of a target it
\* processes, the move of an entry of such a target, the write of the manifest
SafeSteps ==
    LET temp_dirs == collect_temp_dirs
        live == {i \in DOMAIN temp_dirs :
                    temp_dirs[i] \in DOMAIN tdirs /\ tdirs[temp_dirs[i]].access}
    IN  {<<"mkdir", i, <<>>>> : i \in live}
        \cup UNION {{<<"move", i, n>> : n \in DOMAIN tdirs[temp_dirs[i]].files} : i \in live}
        \cup {<<"write", 0, <<>>>>}

\* What can fail in a call of restore_latest_backup: the mkdir of a
\* destination that is gone, the move of an entry of the session
SafeRestoreSteps ==
    LET latest == latest_backup(safeRoot)
        manifest == cleanup_read_manifest(safeRoot, latest.v)
        subs == safeRoot.entries[latest.v].sub
        live == {i \in DOMAIN manifest.order : destination_root(manifest.order[i]) \in DOMAIN subs}
    IN  IF latest = NoneV \/ ~Truthy(manifest) THEN {}
        ELSE {<<"mkdir", i, <<>>>> : i \in live}
             \cup UNION {{<<"move", i, n>> :
                             n \in DOMAIN subs[destination_root(manifest.order[i])]} : i \in live}

\* Whether Windows will refuse the directory of one of the targets
AnyInvalid ==
    \E d \in Range(collect_temp_dirs) :
        \E k \in DOMAIN destination_root(backup_subdir_name(d)) :
            InvalidName(destination_root(backup_subdir_name(d))[k])

\* A test that looks at the moves only
nothing_moved(done) == done.moved = 0

\* "if moved == 0 and failed == 0" of safe_cleanup
nothing_happened(done) == done.moved = 0 /\ done.failed = 0

\* The filesystem calls of a safe_cleanup that writes its manifest: those
\* of the loop over the targets, then the write
cleanup_log(loop) == Append(loop, <<"write", 0, <<>>>>)

safe_cleanup ==
    \E f \in Faults(SafeSteps), partial \in (IF AnyInvalid THEN BOOLEAN ELSE {FALSE}) :
      LET session == Timestamp(clock)
          done == cleanup_targets(1, collect_temp_dirs, session, partial, f,
                      [scanned |-> 0, moved |-> 0, failed |-> 0, skipped |-> 0,
                       errors |-> <<>>, mapping |-> DictV(<<>>, EmptyFn),
                       root |-> safeRoot, dirs |-> tdirs, raised |-> FALSE, log |-> <<>>])
          nothing == nothing_happened(done)
      IN  /\ Record("safe_cleanup", f)
          /\ UNCHANGED <<platform, clock, limit, regVars, maxVars, perfRoot, maxRoot, env, os0>>
          /\ tdirs' = done.dirs
          /\ IF done.raised
             THEN /\ safeRoot' = done.root
                  /\ last' = RaisedAfter("safe_cleanup", done.log)
             ELSE IF nothing
             THEN /\ safeRoot' = done.root
                  /\ last' = Logged("safe_cleanup",
                        CleanupResult(done.scanned, done.moved, done.failed, done.skipped,
                                      NoneV, done.errors), done.log)
             ELSE IF <<"write", 0, <<>>>> \in f
             THEN /\ safeRoot' = done.root
                  /\ last' = RaisedAfter("safe_cleanup", cleanup_log(done.log))
             ELSE /\ safeRoot' = write_manifest(done.root, session, done.mapping)
                  /\ last' = Logged("safe_cleanup",
                        CleanupResult(done.scanned, done.moved, done.failed, done.skipped,
                                      StrV(session), done.errors), cleanup_log(done.log))

\* A restore that drops the manifest of the session it has restored
restore_target_consumes(i, backup_name, destination_str, session, f, acc) ==
    [acc EXCEPT !.root.entries[session].manifest = NoneV]

\* The body of the loop "for backup_name, destination_str in manifest.items()"
\* of restore_latest_backup, for the i-th entry of the manifest
restore_target(i, backup_name, destination_str, session, f, acc) ==
    LET destination == ParsePath(destination_str.v)
        sub    == destination_root(backup_name)
        subs   == acc.root.entries[session].sub
        exists == destination \in DOMAIN acc.dirs
        before == IF exists THEN acc.dirs[destination].files ELSE EmptyFn
        mv     == move_entries(Listing(subs[sub]), i, f, subs[sub],
                      [scanned |-> acc.scanned, moved |-> acc.moved, failed |-> acc.failed,
                       errors |-> acc.errors, left |-> subs[sub], into |-> before,
                       log |-> IF exists THEN acc.log
                               ELSE Append(acc.log, <<"mkdir", i, <<>>>>)])
    IN  IF acc.raised THEN acc
        ELSE IF ~IsStr(destination_str) THEN [acc EXCEPT !.raised = TRUE]
        ELSE IF sub \notin DOMAIN subs THEN [acc EXCEPT !.skipped = @ + 1]
        ELSE IF ~exists /\ <<"mkdir", i, <<>>>> \in f
        THEN [acc EXCEPT !.skipped = @ + 1,
                         !.log = Append(@, <<"mkdir", i, <<>>>>),
                         !.errors = Append(@, Err("Impossible de recreer", destination_str.v))]
        ELSE [acc EXCEPT !.root = [@ EXCEPT !.entries[session].sub[sub] = mv.left],
                         !.dirs = Put(@, destination,
                                      [access |-> IF exists THEN @[destination].access ELSE TRUE,
                                       files |-> mv.into]),
                         !.scanned = mv.scanned, !.moved = mv.moved,
                         !.failed = mv.failed, !.errors = mv.errors, !.log = mv.log]

RECURSIVE restore_targets(_, _, _, _, _)
restore_targets(i, manifest, session, f, acc) ==
    IF i > Len(manifest.order) THEN acc
    ELSE restore_targets(i + 1, manifest, session, f,
             restore_target(i, manifest.order[i], manifest.f[manifest.order[i]],
                            session, f, acc))

restore_latest_backup ==
    \E f \in Faults(SafeRestoreSteps) :
      LET latest == latest_backup(safeRoot)
          manifest == cleanup_read_manifest(safeRoot, latest.v)
          done == restore_targets(1, manifest, latest.v, f,
                      [scanned |-> 0, moved |-> 0, failed |-> 0, skipped |-> 0,
                       errors |-> <<>>, root |-> safeRoot, dirs |-> tdirs, raised |-> FALSE,
                       log |-> <<<<"read", 0, <<>>>>>>])
      IN  /\ Record("restore_backup", f)
          /\ UNCHANGED <<platform, clock, limit, regVars, maxVars, perfRoot, maxRoot, env, os0>>
          /\ IF latest = NoneV
             THEN /\ last' = Returned("restore_backup",
                        CleanupResult(0, 0, 0, 1, NoneV,
                                      <<Err("Aucune sauvegarde disponible.", "")>>))
                  /\ UNCHANGED <<safeRoot, tdirs>>
             ELSE IF ~Truthy(manifest)
             THEN /\ last' = Logged("restore_backup",
                        CleanupResult(0, 0, 0, 1, NoneV,
                                      <<Err("Manifest de sauvegarde introuvable.", "")>>),
                        <<<<"read", 0, <<>>>>>>)
                  /\ UNCHANGED <<safeRoot, tdirs>>
             ELSE /\ safeRoot' = done.root
                  /\ tdirs' = done.dirs
                  /\ last' = IF done.raised THEN RaisedAfter("restore_backup", done.log)
                             ELSE Logged("restore_backup",
                                    CleanupResult(done.scanned, done.moved, done.failed,
                                                  done.skipped, latest, done.errors),
                                    done.log)

----------------------------------------------------------------------------
(* ui/main_window.py: the handlers of the Performance and Max Performance  *)
(* buttons.  QMessageBox.warning is modal: the handler waits in it, and    *)
(* the window takes no other click until the handler returns.              *)

\* What QMessageBox.warning(..., QMessageBox.Yes | QMessageBox.No) returns;
\* closing the dialog returns No
Answers == {"Yes", "No"}

\* The first three errors, as the summary lists them: result.errors[:3]
FirstThree(errors) == SubSeq(errors, 1, IF Len(errors) < 3 THEN Len(errors) ELSE 3)

BackupInfo(result) ==
    IF result.backup_dir # NoneV THEN <<"Sauvegarde :", result.backup_dir.v>>
    ELSE <<"Aucune sauvegarde creee.">>

ErrorsInfo(result) ==
    IF result.errors # <<>> THEN <<"Erreurs :", Len(result.errors), FirstThree(result.errors)>>
    ELSE <<"Aucune erreur.">>

\* MainWindow._format_performance_result: the lines of the summary
format_performance_result(result, title) ==
    << <<title>>,
       <<"OneDrive demarrage :", IF result.onedrive_disabled THEN "Desactive" ELSE "Inchange">>,
       <<"Apps en arriere-plan :",
         IF result.background_apps_disabled THEN "Reduit" ELSE "Inchange">>,
       <<"Processus OneDrive :",
         IF result.onedrive_process_stopped THEN "Arrete" ELSE "Non modifie">>,
       BackupInfo(result),
       ErrorsInfo(result) >>

\* MainWindow._format_max_performance_result
format_max_performance_result(result, title) ==
    << <<title>>,
       <<"Services desactives :",
         IF result.services_disabled # <<>> THEN result.services_disabled
         ELSE <<"Aucun service desactive.">> >>,
       <<"Indexation Windows :", IF result.indexing_disabled THEN "Desactivee" ELSE "Inchangee">>,
       <<"Plan d'alimentation :", IF result.power_scheme_set THEN "Active" ELSE "Non modifie">>,
       <<"OneDrive demarrage :", IF result.onedrive_disabled THEN "Desactive" ELSE "Inchange">>,
       <<"Processus OneDrive :",
         IF result.onedrive_process_stopped THEN "Arrete" ELSE "Non modifie">>,
       BackupInfo(result),
       ErrorsInfo(result) >>

\* The window after MainWindow.__init__: no handler runs, the labels show
\* their default text
MainWindow ==
    [pc |-> "idle", answers |-> <<>>, base |-> 0,
     performance_summary |-> << <<"Aucune action Performance executee pour le moment.">> >>,
     max_summary |-> << <<"Aucune action Max Performance executee pour le moment.">> >>]

\* What a step of a handler that calls nothing leaves alone
HandlerOnly ==
    UNCHANGED <<platform, clock, faultsLeft, limit, regVars, maxVars, perfRoot, maxRoot,
                fsVars, last, failed, calls, os0>>

\* MainWindow._run_performance_profile, from the click to the return of its
\* dialog: "if confirm != QMessageBox.Yes: return"
performance_confirm ==
    /\ ui.pc = "idle"
    /\ \E confirm \in Answers :
          ui' = [ui EXCEPT !.answers = <<confirm>>, !.base = Len(calls),
                           !.pc = IF confirm # "Yes" THEN "idle" ELSE "apply_performance"]
    /\ HandlerOnly

\* ... "result = apply_performance_profile()"
performance_apply ==
    /\ ui.pc = "apply_performance" /\ Len(calls) = ui.base
    /\ apply_performance_profile

\* ... the call returned: setText of the summary; an exception of the call
\* ends the handler before it
performance_show ==
    /\ ui.pc = "apply_performance" /\ Len(calls) > ui.base
    /\ ui' = [ui EXCEPT !.pc = "idle",
                        !.performance_summary =
                            IF last.raised THEN @
                            ELSE format_performance_result(last.res,
                                                           "Profil Performance applique")]
    /\ HandlerOnly

\* A handler that asks once
max_first_confirm_only ==
    /\ ui.pc = "idle"
    /\ \E first_confirm \in Answers :
          ui' = [ui EXCEPT !.answers = <<first_confirm>>, !.base = Len(calls),
                           !.pc = IF first_confirm # "Yes" THEN "idle" ELSE "apply_max"]
    /\ HandlerOnly

\* MainWindow._run_max_performance_profile, from the click to the return of
\* its first dialog: "if first_confirm != QMessageBox.Yes: return", else the
\* second dialog opens
max_first_confirm ==
    /\ ui.pc = "idle"
    /\ \E first_confirm \in Answers :
          ui' = [ui EXCEPT !.answers = <<first_confirm>>,
                           !.pc = IF first_confirm # "Yes" THEN "idle" ELSE "second_confirm"]
    /\ HandlerOnly

\* ... the second dialog returns: "if second_confirm != QMessageBox.Yes:
\* return"
max_second_confirm ==
    /\ ui.pc = "second_confirm"
    /\ \E second_confirm \in Answers :
          ui' = [ui EXCEPT !.answers = Append(@, second_confirm), !.base = Len(calls),
                           !.pc = IF second_confirm # "Yes" THEN "idle" ELSE "apply_max"]
    /\ HandlerOnly

\* ... "result = apply_max_performance_profile()"
max_apply ==
    /\ ui.pc = "apply_max" /\ Len(calls) = ui.base
    /\ apply_max_performance_profile

\* ... the call returned: setText of the summary
max_show ==
    /\ ui.pc = "apply_max" /\ Len(calls) > ui.base
    /\ ui' = [ui EXCEPT !.pc = "idle",
                        !.max_summary =
                            IF last.raised THEN @
                            ELSE format_max_performance_result(last.res,
                                                               "Profil Max Performance applique")]
    /\ HandlerOnly

----------------------------------------------------------------------------
(* Initial states and specifications.                                      *)

S_OneDriveCmd == <<"O", "n", "e", "D", "r", "i", "v", "e", ".", "e", "x", "e">>

NoCall == [op |-> "none", raised |-> FALSE, res |-> NoneV, log |-> <<>>]

\* What a backup root can hold before the first call: nothing, a file that
\* is no session, or the session of an earlier run with or without manifest
OldSession == Timestamp(ClockStart - 1)
ForeignFile == <<9, 9>>
OlderSession == Timestamp(ClockStart - 2)
OldRoots(manifests) ==
    {AbsentRoot, [exists |-> TRUE, entries |-> EmptyFn],
     [exists |-> TRUE, entries |-> Put(EmptyFn, ForeignFile, File)]}
    \cup {[exists |-> TRUE,
           entries |-> Put(Put(EmptyFn, ForeignFile, File), OldSession, Dir(m, EmptyFn))]
          : m \in manifests}
    \cup {[exists |-> TRUE,
           entries |-> Put(Put(Put(EmptyFn, ForeignFile, File), OldSession, Dir(m, EmptyFn)),
                           OlderSession, Dir(NoneV, EmptyFn))]
          : m \in manifests}

\* The same, for a root that holds at most one earlier session
FewRoots(manifests) ==
    {AbsentRoot}
    \cup {[exists |-> TRUE,
           entries |-> Put(Put(EmptyFn, ForeignFile, File), OldSession, Dir(m, EmptyFn))]
          : m \in manifests}

NoFiles ==
    /\ safeRoot = AbsentRoot
    /\ env = [TEMP |-> NoneV, TMP |-> NoneV, WINDIR |-> NoneV]
    /\ tdirs = EmptyFn

DefaultServices ==
    [x \in Range(SERVICE_TARGETS) |-> [start_type |-> "AUTO_START", running |-> TRUE]]

Common ==
    /\ platform \in {"win32", "posix"}
    /\ clock = ClockStart
    /\ last = NoCall
    /\ failed = {}
    /\ calls = <<>>
    /\ ui = MainWindow

InitPerf ==
    /\ Common /\ NoFiles
    /\ limit = MaxCallsPerf
    /\ faultsLeft = MaxFaults
    /\ run \in {NoneV, StrV(<<>>), StrV(S_OneDriveCmd)}
    /\ bgKey \in BOOLEAN
    /\ bg \in IF bgKey THEN {NoneV, IntV(0), IntV(1)} ELSE {NoneV}
    /\ odProc \in BOOLEAN
    /\ svc = DefaultServices
    /\ power = [active |-> "balanced", high |-> "en"]
    /\ perfRoot \in FewRoots({NoneV, ObjV(EmptyFn),
                              ObjV([onedrive_run_value |-> StrV(S_OneDriveCmd),
                                    background_previous |-> IntV(0)])})
    /\ maxRoot = AbsentRoot
    /\ os0 = OSState

InitPerfEnv ==
    /\ Common /\ NoFiles
    /\ limit = MaxCallsEnv
    /\ faultsLeft = MaxFaults
    /\ run \in {NoneV, StrV(S_OneDriveCmd)}
    /\ bgKey = TRUE /\ bg = IntV(0)
    /\ odProc = FALSE
    /\ svc = DefaultServices
    /\ power = [active |-> "balanced", high |-> "en"]
    /\ perfRoot \in FewRoots({ObjV([onedrive_run_value |-> NoneV,
                                    background_previous |-> IntV(0)])})
    /\ maxRoot = AbsentRoot
    /\ os0 = OSState

NextPerfEnv ==
    \/ apply_performance_profile
    \/ restore_latest_performance
    \/ external_run_write
    \/ Tick

SpecPerfEnv == InitPerfEnv /\ [][NextPerfEnv]_vars

NextPerf == apply_performance_profile \/ restore_latest_performance \/ Tick

SpecPerf == InitPerf /\ [][NextPerf]_vars

InitMax ==
    /\ Common /\ NoFiles
    /\ limit = MaxCallsMax
    /\ faultsLeft = MaxFaults
    /\ run \in {NoneV, StrV(S_OneDriveCmd)}
    /\ bgKey = FALSE /\ bg = NoneV
    /\ odProc = TRUE
    /\ svc \in {DefaultServices,
                [DefaultServices EXCEPT !["SysMain"] = [start_type |-> "DEMAND_START",
                                                        running |-> FALSE]]}
    /\ power \in {[active |-> "balanced", high |-> l] : l \in {"en", "fr", "none"}}
                 \cup {[active |-> "high", high |-> "en"]}
    /\ perfRoot = AbsentRoot
    /\ maxRoot \in FewRoots({NoneV, ObjV(EmptyFn)})
    /\ os0 = OSState

NextMax == apply_max_performance_profile \/ restore_latest_max_performance \/ Tick

SpecMax == InitMax /\ [][NextMax]_vars

InitBoth ==
    /\ Common /\ NoFiles
    /\ limit = MaxCallsBoth
    /\ faultsLeft = 0
    /\ run \in {NoneV, StrV(S_OneDriveCmd)}
    /\ bgKey \in BOOLEAN
    /\ bg = IF bgKey THEN IntV(0) ELSE NoneV
    /\ odProc = TRUE
    /\ svc = DefaultServices
    /\ power = [active |-> "balanced", high |-> "none"]
    /\ perfRoot = AbsentRoot
    /\ maxRoot = AbsentRoot
    /\ os0 = OSState

\* The values of TEMP, TMP and WINDIR: directories of a POSIX system, and of
\* a Windows system with and without a drive
P_t      == <<"/", "t">>
P_w      == <<"/", "w">>
P_w_Temp == <<"/", "w", "_", "T", "e", "m", "p">>
P_wTemp  == <<"/", "w", "/", "T", "e", "m", "p">>
W_Ct     == <<"C", ":", "\\", "t">>
W_Cw     == <<"C", ":", "\\", "w">>
W_t      == <<"\\", "t">>
W_w      == <<"\\", "w">>
W_w_Temp == <<"\\", "w", "_", "T", "e", "m", "p">>

Environ(temp, tmp, windir) == [TEMP |-> temp, TMP |-> tmp, WINDIR |-> windir]

Environs ==
    IF platform = "win32"
    THEN {Environ(StrV(W_Ct), NoneV, StrV(W_Cw)),
          Environ(StrV(W_t), NoneV, NoneV),
          Environ(StrV(W_w_Temp), NoneV, StrV(W_w))}
    ELSE {Environ(StrV(P_w_Temp), NoneV, StrV(P_w)),
          Environ(StrV(P_t), NoneV, StrV(P_w)),
          Environ(StrV(P_wTemp), NoneV, StrV(P_w)),
          Environ(StrV(<<>>), StrV(P_t), NoneV),
          Environ(NoneV, NoneV, NoneV)}

EntryNames == {<<"a">>, <<"b">>}

\* A directory and its entries; an entry is known by where it was first
Entry(d, n) == [dir |-> d, name |-> n]
Folder(d, access, names) == [access |-> access, files |-> [n \in names |-> Entry(d, n)]]
Folders(d) == {Folder(d, TRUE, names) : names \in SUBSET EntryNames}
              \cup {Folder(d, FALSE, {<<"a">>})}

\* The directories the environment names: each absent, or there with some
\* entries
FileSystems ==
    LET targets == Range(collect_temp_dirs)
        all == UNION {Folders(d) : d \in targets}
    IN  {fs \in UNION {[D -> all] : D \in SUBSET targets} :
            \A d \in DOMAIN fs : fs[d] \in Folders(d)}

NoRegistry ==
    /\ run = NoneV /\ bgKey = FALSE /\ bg = NoneV /\ odProc = FALSE
    /\ svc = DefaultServices
    /\ power = [active |-> "balanced", high |-> "en"]

InitSafe ==
    /\ Common /\ NoRegistry
    /\ limit = MaxCallsSafe
    /\ faultsLeft = MaxFaults
    /\ perfRoot = AbsentRoot
    /\ maxRoot = AbsentRoot
    /\ safeRoot \in FewRoots({NoneV, DictV(<<>>, EmptyFn)})
    /\ env \in Environs
    /\ tdirs \in FileSystems
    /\ os0 = OSState

NextSafe == safe_cleanup \/ restore_latest_backup \/ Tick

SpecSafe == InitSafe /\ [][NextSafe]_vars

\* Cleanup over two targets without a drive, from a backup root that does
\* not exist yet
InitClean ==
    /\ Common /\ NoRegistry
    /\ limit = MaxCallsSafe
    /\ faultsLeft = MaxFaults
    /\ perfRoot = AbsentRoot
    /\ maxRoot = AbsentRoot
    /\ safeRoot = AbsentRoot
    /\ env = IF platform = "win32" THEN Environ(StrV(W_t), NoneV, StrV(W_w))
                                   ELSE Environ(StrV(P_t), NoneV, StrV(P_w))
    /\ tdirs \in FileSystems
    /\ os0 = OSState

SpecClean == InitClean /\ [][NextSafe]_vars

\* The main window on a machine where OneDrive is registered and running
InitUI ==
    /\ Common /\ NoFiles
    /\ limit = MaxCallsUI
    /\ faultsLeft = MaxFaults
    /\ run = StrV(S_OneDriveCmd)
    /\ bgKey = TRUE /\ bg = IntV(0)
    /\ odProc = TRUE
    /\ svc = DefaultServices
    /\ power = [active |-> "balanced", high |-> "en"]
    /\ perfRoot = AbsentRoot
    /\ maxRoot = AbsentRoot
    /\ os0 = OSState

NextUI ==
    \/ performance_confirm \/ performance_apply \/ performance_show
    \/ max_first_confirm \/ max_second_confirm \/ max_apply \/ max_show
    \/ Tick

SpecUI == InitUI /\ [][NextUI]_vars

InitAll ==
    /\ Common
    /\ limit = MaxCallsAll
    /\ faultsLeft = 0
    /\ run = StrV(S_OneDriveCmd) /\ bgKey = TRUE /\ bg = IntV(0) /\ odProc = TRUE
    /\ svc = DefaultServices
    /\ power = [active |-> "balanced", high |-> "en"]
    /\ perfRoot \in OldRoots({NoneV, ObjV(EmptyFn)})
    /\ maxRoot \in OldRoots({NoneV, ObjV(EmptyFn)})
    /\ safeRoot \in OldRoots({NoneV, DictV(<<>>, EmptyFn)})
    /\ env = IF platform = "win32" THEN Environ(StrV(W_t), NoneV, NoneV)
                                   ELSE Environ(StrV(P_t), NoneV, NoneV)
    /\ tdirs = [d \in Range(collect_temp_dirs) |-> Folder(d, TRUE, {<<"a">>})]
    /\ os0 = OSState

NextAll ==
    \/ apply_performance_profile
    \/ restore_latest_performance
    \/ apply_max_performance_profile
    \/ restore_latest_max_performance
    \/ safe_cleanup
    \/ restore_latest_backup
    \/ Tick

SpecAll == InitAll /\ [][NextAll]_vars

\* Cleanup alone, from a backup root that does not exist yet, without
\* failures: every session is the work of a call of the behaviour
InitSeq ==
    /\ Common /\ NoRegistry
    /\ limit = MaxCallsSeq
    /\ faultsLeft = 0
    /\ perfRoot = AbsentRoot
    /\ maxRoot = AbsentRoot
    /\ safeRoot = AbsentRoot
    /\ env = IF platform = "win32" THEN Environ(StrV(W_t), NoneV, NoneV)
                                   ELSE Environ(StrV(P_t), NoneV, NoneV)
    /\ tdirs \in {[d \in Range(collect_temp_dirs) |-> Folder(d, TRUE, names)] :
                     names \in {{<<"a">>}, {<<"a">>, <<"b">>}}}
    /\ os0 = OSState

NextSeq == safe_cleanup \/ restore_latest_backup \/ Tick

SpecSeq == InitSeq /\ [][NextSeq]_vars

\* Restores alone, over sessions left by an earlier run: a manifest that
\* records services and a power scheme, manifests with ill-typed fields; with
\* up to MaxFaultsRec failures
RecordedServices ==
    ObjV([WSearch |-> ObjV([start_type |-> StrV(S_AUTO_START), was_running |-> BoolV(TRUE)]),
          SysMain |-> ObjV([start_type |-> StrV(S_DEMAND_START), was_running |-> BoolV(FALSE)])])

MaxManifests ==
    {ObjV([services |-> RecordedServices, power_scheme |-> StrV(GuidBalanced),
           onedrive_run_value |-> StrV(S_OneDriveCmd)]),
     ObjV([services |-> ObjV(EmptyFn), power_scheme |-> NoneV,
           onedrive_run_value |-> NoneV])}

\* Manifests in which a field has a type restore does not expect
IllTypedMax ==
    ObjV([services |-> StrV(<<"x">>), power_scheme |-> IntV(1),
          onedrive_run_value |-> StrV(S_OneDriveCmd)])
IllTypedPerf ==
    ObjV([onedrive_run_value |-> StrV(S_OneDriveCmd),
          background_previous |-> StrV(<<"1">>)])

\* A Cleanup session of two targets w and t, each holding one entry; the
\* manifest records a number as the path of w
TempPath == IF platform = "win32" THEN W_t ELSE P_t
IllTypedSafeRoot ==
    [exists |-> TRUE,
     entries |-> Put(EmptyFn, OldSession,
         Dir(DictV(<<<<"w">>, <<"t">>>>,
                   Put(Put(EmptyFn, <<"w">>, IntV(5)), <<"t">>, StrV(TempPath))),
             Put(Put(EmptyFn, destination_root(<<"w">>),
                         Put(EmptyFn, <<"b">>, Entry(ParsePath(TempPath), <<"b">>))),
                 destination_root(<<"t">>),
                 Put(EmptyFn, <<"a">>, Entry(ParsePath(TempPath), <<"a">>)))))]

\* A Cleanup session of the target t, holding one entry
BackedUpSafeRoot ==
    [exists |-> TRUE,
     entries |-> Put(EmptyFn, OldSession,
         Dir(DictV(<<<<"t">>>>, Put(EmptyFn, <<"t">>, StrV(TempPath))),
             Put(EmptyFn, destination_root(<<"t">>),
                 Put(EmptyFn, <<"a">>, Entry(ParsePath(TempPath), <<"a">>)))))]

InitRec ==
    /\ Common
    /\ env = Environ(StrV(TempPath), NoneV, NoneV)
    /\ tdirs = [d \in Range(collect_temp_dirs) |-> Folder(d, TRUE, {})]
    /\ safeRoot \in {BackedUpSafeRoot, IllTypedSafeRoot}
    /\ limit = MaxCallsRec
    /\ faultsLeft = MaxFaultsRec
    /\ run = StrV(S_OneDriveUpdated)
    /\ bgKey = TRUE /\ bg = IntV(1)
    /\ odProc = FALSE
    /\ svc = [x \in Range(SERVICE_TARGETS) |-> [start_type |-> "DISABLED", running |-> FALSE]]
    /\ power = [active |-> "high", high |-> "en"]
    /\ perfRoot \in FewRoots({ObjV([onedrive_run_value |-> StrV(S_OneDriveCmd),
                                     background_previous |-> IntV(0)]),
                               IllTypedPerf})
    /\ maxRoot \in FewRoots(MaxManifests \cup {IllTypedMax})
    /\ os0 = OSState

NextRec ==
    \/ restore_latest_performance
    \/ restore_latest_max_performance
    \/ restore_latest_backup
    \/ Tick

SpecRec == InitRec /\ [][NextRec]_vars

NextBoth ==
    \/ apply_performance_profile
    \/ restore_latest_performance
    \/ apply_max_performance_profile
    \/ restore_latest_max_performance
    \/ Tick

SpecBoth == InitBoth /\ [][NextBoth]_vars

----------------------------------------------------------------------------
(* Properties.                                                             *)

Ok(op) == [op |-> op, ok |-> TRUE]

\* One apply, then the restore of the same profile, every adapter call succeeding
RoundTrip(apply, restore) ==
    /\ platform = "win32"
    /\ calls = <<Ok(apply), Ok(restore)>>
    /\ ~last.raised

\* One or more applies, then the restore of the same profile
AppliesThenRestore(apply, restore) ==
    /\ platform = "win32"
    /\ Len(calls) >= 2
    /\ \A i \in 1..(Len(calls) - 1) : calls[i] = Ok(apply)
    /\ calls[Len(calls)] = Ok(restore)

\* The services the manifest of the latest MaxPerformance session records
Captured ==
    LET m == read_manifest(maxRoot, latest_backup(maxRoot).v)
    IN  IF latest_backup(maxRoot) = NoneV \/ ~IsDict(Get(m, "services")) THEN {}
        ELSE DOMAIN Get(m, "services").f

\* The target directories safe_cleanup processes: those that exist and can
\* be read and written, as they were before the first call
Processed ==
    {d \in Range(collect_temp_dirs) : d \in DOMAIN os0.tdirs /\ os0.tdirs[d].access}

RECURSIVE EntriesIn(_)
EntriesIn(ds) ==
    IF ds = {} THEN 0
    ELSE LET d == CHOOSE x \in ds : TRUE
         IN  Cardinality(DOMAIN os0.tdirs[d].files) + EntriesIn(ds \ {d})

\* C1 (as claimed): a safe_cleanup call that returns, followed immediately
\* by restore_latest_backup, every move succeeding, leaves every entry of
\* before in its directory under its name, and restore reports as many
\* moved entries as apply did.
C1_CleanupRoundTrip ==
    [][ ( /\ calls = <<Ok("safe_cleanup")>> /\ ~last.raised
          /\ calls' = <<Ok("safe_cleanup"), Ok("restore_backup")>> )
        => /\ ~last'.raised
           /\ last'.res.moved = last.res.moved
           /\ \A d \in DOMAIN os0.tdirs : \A n \in DOMAIN os0.tdirs[d].files :
                 /\ d \in DOMAIN tdirs'
                 /\ n \in DOMAIN tdirs'[d].files
                 /\ tdirs'[d].files[n] = Entry(d, n) ]_vars

\* C6 (as claimed): a safe_cleanup call in which a processed target has an
\* entry and every move succeeds returns a result with scanned = moved,
\* failed = 0 and scanned = the number of entries of the processed targets.
C6_CleanupCounters ==
    ( /\ calls = <<Ok("safe_cleanup")>>
      /\ \E d \in Processed : DOMAIN os0.tdirs[d].files # {} )
        => /\ ~last.raised
           /\ last.res.scanned = last.res.moved
           /\ last.res.failed = 0
           /\ last.res.scanned = EntriesIn(Processed)

\* C7 (as claimed): after a safe_cleanup call that moved something, the
\* manifest of its session holds, for every processed target, an entry
\* whose key is the target's identifier and whose value is the target's own
\* path; no two processed targets share an entry.
C7_ManifestMapsTargets ==
    ( /\ Len(calls) = 1 /\ last.op = "safe_cleanup" /\ ~last.raised
      /\ last.res.moved > 0 )
        => LET m == safeRoot.entries[last.res.backup_dir.v].manifest
           IN  /\ m # NoneV
               /\ \A d \in Processed :
                     /\ backup_subdir_name(d) \in DOMAIN m.f
                     /\ m.f[backup_subdir_name(d)] = StrV(PathStr(d))

\* C2: after apply_performance_profile then restore_latest_performance, all
\* registry calls succeeding, the OneDrive Run value and the GlobalUserDisabled
\* flag are what they were before apply: an absent flag is absent again, a
\* flag that was 0 is 0 again.
C2_PerformanceRoundTrip ==
    RoundTrip("apply_performance", "restore_performance")
        => /\ run = os0.run
           /\ bg = os0.bg

C2_Witness ==
    /\ RoundTrip("apply_performance", "restore_performance")
    /\ os0.run = StrV(S_OneDriveCmd) /\ run = os0.run
    /\ os0.bg = IntV(0) /\ bg = IntV(0)
    /\ last.res.errors = <<>>

\* C3 (as claimed): after one or more consecutive applies of one profile and
\* then its restore, all adapter calls succeeding, the Run value, the
\* background-apps flag, the services and the power scheme are what they were
\* before the first apply.
C3_UndoAfterApplies ==
    /\ AppliesThenRestore("apply_performance", "restore_performance")
           => run = os0.run /\ bg = os0.bg
    /\ AppliesThenRestore("apply_max", "restore_max")
           => run = os0.run /\ svc = os0.svc /\ power.active = os0.power

\* C4 (as claimed): after both profiles are applied, in either order, and
\* both restored, in either order, all adapter calls succeeding, the OneDrive
\* Run value is what it was before the first apply.
C4_ProfilesIndependent ==
    ( /\ platform = "win32"
      /\ Len(calls) = 4
      /\ \A i \in 1..4 : calls[i].ok
      /\ {calls[1].op, calls[2].op} = {"apply_performance", "apply_max"}
      /\ {calls[3].op, calls[4].op} = {"restore_performance", "restore_max"} )
        => run = os0.run

\* C5 (as claimed): after apply_max_performance_profile then
\* restore_latest_max_performance, all adapter calls succeeding, every
\* captured service has its start type and running flag of before, and the
\* active power scheme is the one of before.
C5_MaxRoundTrip ==
    RoundTrip("apply_max", "restore_max")
        => /\ \A x \in Captured : svc[x] = os0.svc[x]
           /\ power.active = os0.power

\* C9: in a call of apply_max_performance_profile that returns, a service X
\* whose "sc qc" or "sc query" call failed is not in services_disabled, no
\* stop and no config call was issued for it, an error names it, and every
\* other service was still queried and has an outcome of its own (disabled,
\* or an error that names it).
QueryFailed(x) == <<"qc", x>> \in failed \/ <<"query", x>> \in failed

C9_QueryFailureIsolated ==
    (last.op = "apply_max" /\ ~last.raised /\ platform = "win32")
        => \A x \in Range(SERVICE_TARGETS) :
             QueryFailed(x) =>
               /\ x \notin Range(last.res.services_disabled)
               /\ <<"stop", x>> \notin Range(last.log)
               /\ <<"config", x>> \notin Range(last.log)
               /\ \E e \in Range(last.res.errors) : e.subj = x
               /\ \A y \in Range(SERVICE_TARGETS) \ {x} :
                    /\ <<"qc", y>> \in Range(last.log)
                    /\ <<"query", y>> \in Range(last.log)
                    /\ \/ y \in Range(last.res.services_disabled)
                       \/ \E e \in Range(last.res.errors) : e.subj = y

C9_Witness ==
    /\ last.op = "apply_max" /\ ~last.raised /\ platform = "win32"
    /\ QueryFailed("SysMain")
    /\ "SysMain" \notin Range(last.res.services_disabled)
    /\ \E e \in Range(last.res.errors) : e.subj = "SysMain"
    /\ <<"query", "DiagTrack">> \in Range(last.log)

\* str < str, read off the definition of the lexicographic order: at the
\* first position where a and b differ, a ends or holds the smaller character
LexLess(a, b) ==
    \E i \in 1..Len(b) :
        /\ i <= Len(a) + 1
        /\ \A j \in 1..(i - 1) : a[j] = b[j]
        /\ (i = Len(a) + 1 \/ a[i] < b[i])

Subdirs(root) == {n \in DOMAIN root.entries : root.entries[n].kind = "dir"}
Greatest(root) == CHOOSE n \in Subdirs(root) : \A m \in Subdirs(root) \ {n} : LexLess(m, n)

NoSession(root) == ~root.exists \/ Subdirs(root) = {}
NothingToRestore(root) ==
    \/ NoSession(root)
    \/ root.entries[Greatest(root)].manifest \in {NoneV, ObjV(EmptyFn), DictV(<<>>, EmptyFn)}

Profiles ==
    {[restore |-> "restore_performance", root |-> perfRoot, guarded |-> TRUE],
     [restore |-> "restore_max", root |-> maxRoot, guarded |-> TRUE],
     [restore |-> "restore_backup", root |-> safeRoot, guarded |-> FALSE]}

\* A result that reports nothing moved and nothing changed
NothingDone(op, res) ==
    CASE op = "restore_backup" -> res.moved = 0 /\ res.scanned = 0 /\ res.failed = 0
      [] op = "restore_performance" ->
            /\ ~res.onedrive_disabled /\ ~res.background_apps_disabled
            /\ ~res.onedrive_process_stopped
      [] op = "restore_max" ->
            /\ res.services_disabled = <<>> /\ ~res.indexing_disabled
            /\ ~res.power_scheme_set /\ ~res.onedrive_disabled
            /\ ~res.onedrive_process_stopped

\* C8: for each of the three profiles, a restore called when the root is
\* absent, holds no session directory, or the latest session has no manifest
\* or an empty one returns (does not raise) a result with nothing moved or
\* changed and exactly one error, changes neither the registry, the services,
\* the power scheme nor any file, and returns the same result when it is
\* called again.
C8_RestoreOfNothing ==
    [][ \A p \in Profiles :
          (calls' # calls /\ last'.op = p.restore /\ NothingToRestore(p.root))
            => /\ ~last'.raised
               /\ NothingDone(p.restore, last'.res)
               /\ Len(last'.res.errors) = 1
               /\ UNCHANGED <<regVars, maxVars, perfRoot, maxRoot, fsVars>>
               /\ (last.op = p.restore => last'.res = last.res) ]_vars

C8_Witness ==
    /\ platform = "win32"
    /\ Len(calls) = 2 /\ calls[1].op = "restore_max" /\ calls[2].op = "restore_max"
    /\ ~NoSession(maxRoot) /\ NothingToRestore(maxRoot)
    /\ ~last.raised /\ Len(last.res.errors) = 1
    /\ svc = os0.svc /\ run = os0.run

\* C10: a restore uses the session directory whose name is greatest in
\* lexicographic order among the directories of its root, whatever files the
\* root holds besides, and reports that there is no backup when the root is
\* absent or holds no directory.
C10_LatestSession ==
    [][ \A p \in Profiles :
          (calls' # calls /\ last'.op = p.restore /\ (p.guarded => platform = "win32"))
            => IF NoSession(p.root)
               THEN /\ ~last'.raised
                    /\ last'.res.backup_dir = NoneV
                    /\ last'.res.errors = <<Err("Aucune sauvegarde disponible.", "")>>
               ELSE last'.raised
                    \/ /\ last'.res.errors # <<Err("Aucune sauvegarde disponible.", "")>>
                       /\ last'.res.backup_dir \in {NoneV, StrV(Greatest(p.root))}
                       /\ last'.res.backup_dir = NoneV => NothingToRestore(p.root) ]_vars

C10_Witness ==
    /\ platform = "win32"
    /\ last.op = "restore_performance"
    /\ Cardinality(Subdirs(perfRoot)) = 3
    /\ ForeignFile \in DOMAIN perfRoot.entries
    /\ last.res.backup_dir = StrV(Timestamp(ClockStart))

\* This step is a call of op
Step(op) == calls' # calls /\ calls'[Len(calls')].op = op

\* The manifest the next restore_latest_performance will read
PerfManifest == read_manifest(perfRoot, latest_backup(perfRoot).v)

\* C11: when the manifest restore reads records the Run value as absent, a
\* restore_latest_performance whose registry calls succeed leaves the Run
\* value absent, whatever was written to it since apply: it deletes the
\* value, it does not write an empty string.
C11_AbsentRunDeleted ==
    [][ ( /\ Step("restore_performance")
          /\ platform = "win32" /\ failed' = {}
          /\ latest_backup(perfRoot) # NoneV
          /\ Truthy(PerfManifest)
          /\ Get(PerfManifest, "onedrive_run_value") = NoneV )
        => run' = NoneV /\ last'.res.errors = <<>> ]_vars

C11_Witness ==
    /\ platform = "win32" /\ os0.run = NoneV
    /\ Len(calls) = 3
    /\ calls[1] = Ok("apply_performance")
    /\ calls[2] = Ok("external_run_write")
    /\ calls[3] = Ok("restore_performance")
    /\ Get(PerfManifest, "onedrive_run_value") = NoneV
    /\ run = NoneV

\* A result with every count zero and every flag false
ZeroResult(op, res) ==
    CASE op \in {"safe_cleanup", "restore_backup"} ->
            res.scanned = 0 /\ res.moved = 0 /\ res.failed = 0
      [] op \in {"apply_performance", "restore_performance"} ->
            /\ ~res.onedrive_disabled /\ ~res.background_apps_disabled
            /\ ~res.onedrive_process_stopped
      [] op \in {"apply_max", "restore_max"} ->
            /\ res.services_disabled = <<>> /\ ~res.indexing_disabled
            /\ ~res.power_scheme_set /\ ~res.onedrive_disabled
            /\ ~res.onedrive_process_stopped

\* C12 (as claimed): off Windows, every apply and every restore of the three
\* engines returns a result with zero counts, false flags, no backup
\* directory and exactly one error, and changes neither the registry, the
\* services, the power scheme nor any file or directory.
C12_PlatformGuard ==
    [][ (platform # "win32" /\ calls' # calls)
        => /\ ~last'.raised
           /\ ZeroResult(last'.op, last'.res)
           /\ last'.res.backup_dir = NoneV
           /\ Len(last'.res.errors) = 1
           /\ UNCHANGED <<regVars, maxVars, perfRoot, maxRoot, fsVars>> ]_vars

\* The manifest of the session the last call returned
WrittenManifest(root) == root.entries[last.res.backup_dir.v].manifest

\* C13 (as claimed): the manifest an apply wrote records, for every target,
\* the value the target had when the call started: the Run value, the
\* background-apps flag, the start type and running flag of each recorded
\* service, the active power scheme, the path of each Cleanup target; never
\* the value after the mutation and never "absent" for a value that existed.
C13_ManifestIsPreState ==
    (Len(calls) = 1 /\ ~last.raised /\ last.res.backup_dir # NoneV)
        => CASE last.op = "apply_performance" ->
                  LET m == WrittenManifest(perfRoot)
                  IN  /\ Get(m, "onedrive_run_value") = os0.run
                      /\ Get(m, "background_previous") = os0.bg
             [] last.op = "apply_max" ->
                  LET m == WrittenManifest(maxRoot)
                  IN  /\ Get(m, "onedrive_run_value") = os0.run
                      /\ Get(m, "power_scheme") = StrV(SchemeGuid(os0.power))
                      /\ \A x \in DOMAIN Get(m, "services").f :
                            LET state == Get(m, "services").f[x]
                            IN  /\ Get(state, "start_type") = StrV(StartWord(os0.svc[x].start_type))
                                /\ Get(state, "was_running") = BoolV(os0.svc[x].running)
             [] last.op = "safe_cleanup" ->
                  LET m == WrittenManifest(safeRoot)
                  IN  \A k \in DOMAIN m.f :
                        \E d \in Processed : k = backup_subdir_name(d) /\ m.f[k] = StrV(PathStr(d))
             [] OTHER -> TRUE

\* At most one w in the log, as its last element
WriteIsLast(log, w) == \A k \in DOMAIN log : log[k] = w => k = Len(log)

\* Every element of the log other than r comes after an r
ReadIsFirst(log, r) ==
    \A k \in DOMAIN log : log[k] # r => \E j \in 1 .. (k - 1) : log[j] = r

\* C14: within one call, the filesystem and adapter calls are ordered: in an
\* apply of any profile the manifest write, if there is one, is the last
\* call, after the creation of the session, every capture and every mutation
\* attempt, and there is at most one; in a restore of any profile the
\* manifest read comes before the first inversion attempt.
C14_OrderWithinCall ==
    CASE last.op = "apply_performance"   -> WriteIsLast(last.log, "write")
      [] last.op = "apply_max"           -> WriteIsLast(last.log, <<"write", "">>)
      [] last.op = "safe_cleanup"        -> WriteIsLast(last.log, <<"write", 0, <<>>>>)
      [] last.op = "restore_performance" -> ReadIsFirst(last.log, "read")
      [] last.op = "restore_max"         -> ReadIsFirst(last.log, <<"read", "">>)
      [] last.op = "restore_backup"      -> ReadIsFirst(last.log, <<"read", 0, <<>>>>)
      [] OTHER -> TRUE

\* An apply of the Performance profile that deleted the Run entry, set the
\* background-apps flag and wrote its manifest, followed by its restore
C14_Witness ==
    /\ Len(calls) = 2
    /\ calls[1].op = "apply_performance" /\ calls[2].op = "restore_performance"
    /\ os0.run # NoneV
    /\ last.log = <<"read", "open_run", "write_run", "create_bg", "write_bg">>

\* The state a profile mutates: registry values, the OneDrive process,
\* services, the power scheme, the contents of the temporary directories
Targets == <<run, bgKey, bg, odProc, svc, power, tdirs>>

\* Whether the call whose outcome is l reports a mutation as done
ReportsMutation(l) ==
    /\ ~l.raised
    /\ CASE l.op = "apply_performance" ->
               \/ l.res.onedrive_disabled \/ l.res.background_apps_disabled
               \/ l.res.onedrive_process_stopped
          [] l.op = "apply_max" ->
               \/ l.res.services_disabled # <<>> \/ l.res.power_scheme_set
               \/ l.res.onedrive_disabled \/ l.res.onedrive_process_stopped
          [] l.op = "safe_cleanup" -> l.res.moved > 0
          [] OTHER -> FALSE

\* C15 (as claimed): an apply call that adds a session directory under the
\* root of its profile has performed at least one mutation (a target changed
\* or the result reports a mutation as done); an apply that mutates nothing
\* leaves the set of session directories unchanged.
C15_SessionOnlyIfMutation ==
    [][ /\ (Step("apply_performance") /\ Subdirs(perfRoot)' # Subdirs(perfRoot))
            => (Targets' # Targets \/ ReportsMutation(last'))
        /\ (Step("apply_max") /\ Subdirs(maxRoot)' # Subdirs(maxRoot))
            => (Targets' # Targets \/ ReportsMutation(last'))
        /\ (Step("safe_cleanup") /\ Subdirs(safeRoot)' # Subdirs(safeRoot))
            => (Targets' # Targets \/ ReportsMutation(last')) ]_vars

\* The manifest of every session directory of a root
Manifests(root) == [n \in Subdirs(root) |-> root.entries[n].manifest]

\* The session directories and the manifests of the three profile roots
Sessions ==
    <<Subdirs(perfRoot), Subdirs(maxRoot), Subdirs(safeRoot),
      Manifests(perfRoot), Manifests(maxRoot), Manifests(safeRoot)>>

\* C16: a restore call of any profile leaves the set of session directories
\* under every profile root and the contents of every manifest unchanged: it
\* creates no session and writes no manifest.
C16_RestoreKeepsSessions ==
    [][ ( \/ Step("restore_performance") \/ Step("restore_max")
          \/ Step("restore_backup") )
        => Sessions' = Sessions ]_vars

\* A restore of the Cleanup profile that moved an entry back
C16_Witness ==
    /\ last.op = "restore_backup" /\ ~last.raised
    /\ last.res.moved > 0
    /\ \E n \in Subdirs(safeRoot) : safeRoot.entries[n].manifest # NoneV

\* An apply that changes root into root2 uses a session directory of its own
\* and leaves every manifest written before as it was
FreshSession(root, root2) ==
    root2 # root =>
        /\ Subdirs(root) \subseteq Subdirs(root2)
        /\ Subdirs(root2) # Subdirs(root)
        /\ \A n \in Subdirs(root) :
              root.entries[n].manifest # NoneV
                  => root2.entries[n].manifest = root.entries[n].manifest

\* C17 (as claimed): in a sequence of apply calls of one profile made one
\* after the other, no two calls use the same session directory, and a
\* manifest once written is never overwritten by a later apply.
C17_SessionsImmutable ==
    [][ /\ Step("apply_performance") => FreshSession(perfRoot, perfRoot')
        /\ Step("apply_max") => FreshSession(maxRoot, maxRoot')
        /\ Step("safe_cleanup") => FreshSession(safeRoot, safeRoot') ]_vars

\* The sessions of a root whose manifest is there and is not empty
WithManifest(root) ==
    {n \in Subdirs(root) :
        root.entries[n].manifest \notin {NoneV, ObjV(EmptyFn), DictV(<<>>, EmptyFn)}}

\* The most recent of them
Newest(root) ==
    CHOOSE n \in WithManifest(root) : \A m \in WithManifest(root) \ {n} : LexLess(m, n)

\* A restore of the profile of root, whose outcome is l, has used the newest
\* non-empty manifest of root if there is one
UsesNewest(root, l) ==
    WithManifest(root) # {}
        => /\ ~l.raised
           /\ l.res.backup_dir = StrV(Newest(root))
           /\ \A e \in Range(l.res.errors) :
                 e.msg \notin {"Manifest introuvable.", "Manifest de sauvegarde introuvable.",
                               "Aucune sauvegarde disponible."}

\* C18 (as claimed): when at least one session of a profile holds a
\* non-empty manifest, restore inverts the most recently written one; a later
\* apply that wrote no manifest does not hide it.
C18_NewestManifest ==
    [][ /\ (Step("restore_backup") /\ platform = "win32")
            => UsesNewest(safeRoot, last')
        /\ (Step("restore_performance") /\ platform = "win32")
            => UsesNewest(perfRoot, last')
        /\ (Step("restore_max") /\ platform = "win32")
            => UsesNewest(maxRoot, last') ]_vars

\* The manifest the next restore_latest_max_performance will read
MaxManifest == read_manifest(maxRoot, latest_backup(maxRoot).v)

\* The inversions a MaxPerformance manifest records: the start mode of each
\* captured service, the start of each service that was running, the power
\* scheme when there is one, the Run value
RecordedMax(m) ==
    LET services == Get(m, "services")
        named == IF IsDict(services) THEN DOMAIN services.f ELSE {}
    IN  {<<"config", x>> : x \in {y \in named : IsStr(Get(services.f[y], "start_type"))}}
        \cup {<<"start", x>> :
                 x \in {y \in named : Get(services.f[y], "was_running") = BoolV(TRUE)}}
        \cup (IF IsStr(Get(m, "power_scheme")) THEN {<<"setactive", "">>} ELSE {})
        \cup {<<"open_run", "">>}

\* C19: a restore of Performance or MaxPerformance that read a non-empty
\* manifest attempts every inversion the manifest records, whichever of the
\* attempts fail: no failure ends the restore early.
C19_RestoreNeverAborts ==
    /\ ( /\ last.op = "restore_max" /\ platform = "win32"
          /\ latest_backup(maxRoot) # NoneV /\ Truthy(MaxManifest) )
        => /\ ~last.raised
           /\ RecordedMax(MaxManifest) \subseteq Range(last.log)
    /\ ( /\ last.op = "restore_performance" /\ platform = "win32"
          /\ latest_backup(perfRoot) # NoneV /\ Truthy(PerfManifest) )
        => /\ ~last.raised
           /\ {"open_run", "create_bg"} \subseteq Range(last.log)

\* A restore of MaxPerformance in which the first set-start-mode and the
\* power-scheme activation failed, and the later inversions were attempted
C19_Witness ==
    /\ last.op = "restore_max"
    /\ failed = {<<"config", "WSearch">>, <<"setactive", "">>}
    /\ <<"config", "SysMain">> \in Range(last.log)
    /\ <<"write_run", "">> \in Range(last.log)

\* The error restore_latest_max_performance is claimed to report for a
\* failed step
ErrorFor(step) ==
    CASE step[1] \in {"config", "start"} -> Err("Impossible de restaurer le service", step[2])
      [] step[1] = "setactive" -> Err("Impossible de restaurer le plan d'alimentation.", "")
      [] OTHER -> Err("Impossible de restaurer OneDrive", "")

\* The calls of the restore that failed, given the Run value it found: the
\* deletion of a value that is already absent is no failure
RealFailures(f, found) ==
    f \ (IF found = NoneV /\ ~IsStr(Get(MaxManifest, "onedrive_run_value"))
         THEN {<<"write_run", "">>} ELSE {})

\* C20 (as claimed): every step of restore_latest_max_performance that
\* fails contributes an error to the result: a failed set-start-mode, a
\* failed service start, a failed power-scheme activation, a failed restore
\* of the Run value.
C20_FailuresReported ==
    [][ ( /\ Step("restore_max") /\ platform = "win32"
          /\ latest_backup(maxRoot) # NoneV /\ Truthy(MaxManifest) )
        => \A step \in RealFailures(failed', run) :
              ErrorFor(step) \in Range(last'.res.errors) ]_vars

\* Whether the errors hold the one a failed mutation step of
\* apply_max_performance_profile is claimed to add
Reported(step, errors) ==
    CASE step[1] = "stop" -> \E e \in Range(errors) : e.subj = step[2]
      [] step[1] = "config" ->
            Err("Impossible de desactiver le service", step[2]) \in Range(errors)
      [] step[1] = "setactive" ->
            Err("Impossible d'activer le mode Performances elevees.", "") \in Range(errors)
      [] step[1] \in {"open_run", "delete_run"} ->
            Err("Impossible de modifier l'entree OneDrive", "") \in Range(errors)
      [] step[1] = "taskkill" -> \E e \in Range(errors) : e.msg = "taskkill"
      [] OTHER -> TRUE

\* The mutation calls of the apply that failed: those among the calls it
\* issued, a taskkill that fails without a message being a failed taskkill
FailedMutations ==
    (failed \cap Range(last.log))
    \cup (IF <<"taskkill_quiet", "">> \in failed THEN {<<"taskkill", "">>} ELSE {})

\* C21 (as claimed): in a result of apply_max_performance_profile every
\* mutation that failed (service stop, set-start-mode disabled, power-scheme
\* activation, change of the Run value, termination of the process) has
\* added an error, and the steps after it were still attempted.
C21_ApplyFailuresReported ==
    (last.op = "apply_max" /\ ~last.raised /\ platform = "win32")
        => /\ \A step \in FailedMutations : Reported(step, last.res.errors)
           /\ {<<"getactive", "">>, <<"list", "">>, <<"open_run", "">>,
                <<"taskkill", "">>, <<"write", "">>} \subseteq Range(last.log)

\* The moves and the mkdirs the last call issued and that failed
FailedMoves == {step \in failed \cap Range(last.log) : step[1] = "move"}
FailedMkdirs == {step \in failed \cap Range(last.log) : step[1] = "mkdir"}

\* C22 (as claimed): no error about one item ends a loop of safe_cleanup or
\* restore_latest_backup: the call returns a result; each failed move counts
\* in failed and has an error that names its entry, and the other entries
\* and targets are still processed (a first safe_cleanup moves or fails every entry
\* of every accessible target); a destination that restore cannot recreate
\* is skipped with one error.
C22_NoItemErrorAborts ==
    (last.op \in {"safe_cleanup", "restore_backup"})
        => /\ ~last.raised
           /\ last.res.failed = Cardinality(FailedMoves)
           /\ \A step \in FailedMoves : Err("move", step[3]) \in Range(last.res.errors)
           /\ (last.op = "safe_cleanup" /\ Len(calls) = 1)
                 => \A d \in Processed : \A n \in DOMAIN os0.tdirs[d].files :
                       \E i \in 1 .. Len(collect_temp_dirs) :
                           <<"move", i, n>> \in Range(last.log)
           /\ (last.op = "restore_backup")
                 => \A step \in FailedMkdirs :
                       /\ last.res.skipped >= 1
                       /\ \E e \in Range(last.res.errors) : e.msg = "Impossible de recreer"

\* The positions of the targets safe_cleanup enumerates that did not exist,
\* and that existed without read and write access, before the first call
MissingTargets ==
    {i \in DOMAIN collect_temp_dirs : collect_temp_dirs[i] \notin DOMAIN os0.tdirs}
DeniedTargets ==
    {i \in DOMAIN collect_temp_dirs :
        /\ collect_temp_dirs[i] \in DOMAIN os0.tdirs
        /\ ~os0.tdirs[collect_temp_dirs[i]].access}
SkippedTargets == MissingTargets \cup DeniedTargets

\* C23: in the result of a safe_cleanup, every enumerated target that does
\* not exist or cannot be read and written counts once in skipped, nothing
\* of it is scanned or moved and the manifest has no entry for its path; a
\* target without access adds one error that names it, a missing target adds
\* none; skipped plus the targets processed is the number of targets.
C23_SkippedTargets ==
    (last.op = "safe_cleanup" /\ ~last.raised /\ Len(calls) = 1)
        => /\ last.res.skipped = Cardinality(SkippedTargets)
           /\ \A i \in SkippedTargets : \A step \in Range(last.log) : step[2] # i
           /\ \A i \in DeniedTargets :
                 tdirs[collect_temp_dirs[i]] = os0.tdirs[collect_temp_dirs[i]]
           /\ Cardinality({k \in DOMAIN last.res.errors :
                               last.res.errors[k].msg = "Acces refuse"})
                 = Cardinality(DeniedTargets)
           /\ \A i \in DeniedTargets :
                 Err("Acces refuse", PathStr(collect_temp_dirs[i])) \in Range(last.res.errors)
           /\ last.res.backup_dir # NoneV
                 => \A i \in SkippedTargets : \A k \in DOMAIN WrittenManifest(safeRoot).f :
                       WrittenManifest(safeRoot).f[k] # StrV(PathStr(collect_temp_dirs[i]))
           /\ last.res.skipped
                 + Cardinality({i \in DOMAIN collect_temp_dirs :
                                   <<"mkdir", i, <<>>>> \in Range(last.log)})
                 = Len(collect_temp_dirs)

\* A safe_cleanup over a target without access and a target it moved an
\* entry out of
C23_Witness ==
    /\ last.op = "safe_cleanup" /\ ~last.raised /\ Len(calls) = 1
    /\ DeniedTargets # {}
    /\ last.res.skipped = 1 /\ last.res.moved > 0

\* C24: a safe_cleanup that returns has written the manifest of its session
\* and returns the session as backup_dir when moved + failed > 0; when
\* nothing was moved and nothing failed it writes no manifest and backup_dir
\* is none.
C24_ManifestIffWork ==
    [][ (Step("safe_cleanup") /\ ~last'.raised)
        => IF last'.res.moved + last'.res.failed > 0
           THEN /\ last'.res.backup_dir = StrV(Timestamp(clock))
                /\ Timestamp(clock) \in Subdirs(safeRoot')
                /\ IsDict(safeRoot'.entries[Timestamp(clock)].manifest)
                /\ last'.log[Len(last'.log)] = <<"write", 0, <<>>>>
           ELSE /\ last'.res.backup_dir = NoneV
                /\ <<"write", 0, <<>>>> \notin Range(last'.log)
                /\ \A n \in Subdirs(safeRoot') :
                      safeRoot'.entries[n].manifest
                          = IF n \in Subdirs(safeRoot) THEN safeRoot.entries[n].manifest
                            ELSE NoneV ]_vars

\* A safe_cleanup whose only entry could not be moved: a manifest is written
C24_Witness ==
    /\ last.op = "safe_cleanup" /\ ~last.raised
    /\ last.res.moved = 0 /\ last.res.failed = 1
    /\ last.res.backup_dir # NoneV
    /\ safeRoot.entries[last.res.backup_dir.v].manifest # NoneV

\* The errors of a result that are about one entry
EntryErrors(res) == {k \in DOMAIN res.errors : res.errors[k].msg = "move"}

SafeManifest == cleanup_read_manifest(safeRoot, latest_backup(safeRoot).v)

\* The positions of the entries of a Cleanup manifest that record a path as
\* a string and whose backup directory is there
WellTyped(m, session) ==
    {i \in DOMAIN m.order :
        /\ IsStr(m.f[m.order[i]])
        /\ destination_root(m.order[i]) \in DOMAIN safeRoot.entries[session].sub}

\* C25 (as claimed): a restore whose latest manifest holds a field of an
\* unexpected type does not raise and still attempts the inversion of every
\* well-typed field: for Cleanup the move of every entry backed up under a
\* path recorded as a string, for MaxPerformance and Performance the
\* inversions of C19.
C25_ManifestTolerance ==
    [][ /\ ( /\ Step("restore_backup")
              /\ latest_backup(safeRoot) # NoneV /\ Truthy(SafeManifest) )
            => /\ ~last'.raised
               /\ \A i \in WellTyped(SafeManifest, latest_backup(safeRoot).v) :
                     \A n \in DOMAIN safeRoot.entries[latest_backup(safeRoot).v]
                                        .sub[destination_root(SafeManifest.order[i])] :
                         <<"move", i, n>> \in Range(last'.log)
        /\ ( /\ Step("restore_max") /\ platform = "win32"
              /\ latest_backup(maxRoot) # NoneV /\ Truthy(MaxManifest) )
            => /\ ~last'.raised
               /\ RecordedMax(MaxManifest) \subseteq Range(last'.log)
        /\ ( /\ Step("restore_performance") /\ platform = "win32"
              /\ latest_backup(perfRoot) # NoneV /\ Truthy(PerfManifest) )
            => /\ ~last'.raised
               /\ {"open_run", "create_bg"} \subseteq Range(last'.log) ]_vars

\* How many times x occurs in a log
Count(log, x) == Cardinality({k \in DOMAIN log : log[k] = x})

\* C26 (as claimed): on Windows, an apply of Performance or MaxPerformance
\* whose mkdir and manifest write succeed creates its session, writes one
\* manifest into it and returns it as backup_dir, whichever mutations fail;
\* the manifest of a first apply holds the prior state of every target whose
\* mutation was attempted: the Run value, the background-apps flag, the
\* active power scheme, each service a set-start-mode call was issued for.
C26_AlwaysSessionAndManifest ==
    /\ ( /\ last.op = "apply_performance" /\ platform = "win32"
          /\ failed \cap {"mkdir", "write"} = {} )
        => /\ ~last.raised
           /\ last.res.backup_dir # NoneV
           /\ last.res.backup_dir.v \in Subdirs(perfRoot)
           /\ WrittenManifest(perfRoot) # NoneV
           /\ Count(last.log, "write") = 1
           /\ Len(calls) = 1 =>
                 /\ "delete_run" \in Range(last.log)
                       => Get(WrittenManifest(perfRoot), "onedrive_run_value") = os0.run
                 /\ "set_bg" \in Range(last.log)
                       => Get(WrittenManifest(perfRoot), "background_previous") = os0.bg
    /\ ( /\ last.op = "apply_max" /\ platform = "win32"
          /\ failed \cap {<<"mkdir", "">>, <<"write", "">>} = {} )
        => /\ ~last.raised
           /\ last.res.backup_dir # NoneV
           /\ last.res.backup_dir.v \in Subdirs(maxRoot)
           /\ WrittenManifest(maxRoot) # NoneV
           /\ Count(last.log, <<"write", "">>) = 1
           /\ Len(calls) = 1 =>
                 /\ <<"delete_run", "">> \in Range(last.log)
                       => Get(WrittenManifest(maxRoot), "onedrive_run_value") = os0.run
                 /\ \A x \in Range(SERVICE_TARGETS) :
                       <<"config", x>> \in Range(last.log)
                           => x \in DOMAIN Get(WrittenManifest(maxRoot), "services").f
                 /\ <<"setactive", "">> \in Range(last.log)
                       => Get(WrittenManifest(maxRoot), "power_scheme")
                              = StrV(SchemeGuid(os0.power))

\* The step is a call of restore op that follows a call of the same restore,
\* and no adapter call failed in either
SecondRestore(op) ==
    /\ Step(op)
    /\ calls # <<>> /\ calls[Len(calls)].op = op /\ calls[Len(calls)].ok
    /\ failed' = {}

\* C27: restore is idempotent: a restore that follows a restore of the same
\* profile, no call failing in either, leaves the targets of the profiles
\* and the backup roots as the first restore left them; the second restore
\* of Cleanup scans and moves nothing.
C27_RestoreIdempotent ==
    [][ /\ ( \/ SecondRestore("restore_performance") \/ SecondRestore("restore_max")
              \/ SecondRestore("restore_backup") )
            => <<Targets, perfRoot, maxRoot, safeRoot>>' = <<Targets, perfRoot, maxRoot, safeRoot>>
        /\ (SecondRestore("restore_backup") /\ ~last'.raised)
            => last'.res.scanned = 0 /\ last'.res.moved = 0 ]_vars

\* Two restores of Cleanup in a row, the first of which moved an entry back
C27_Witness ==
    /\ Len(calls) = 2
    /\ calls[1].op = "restore_backup" /\ calls[1].ok
    /\ calls[2].op = "restore_backup" /\ calls[2].ok
    /\ ~last.raised /\ last.res.scanned = 0
    /\ <<"a">> \in DOMAIN tdirs[ParsePath(TempPath)].files

\* The services, in target order, whose "sc qc" and "sc query" succeeded and
\* whose "sc config ... start=disabled" did not fail
QueriedAndSet ==
    SelectSeq(SERVICE_TARGETS,
              LAMBDA x : {<<"qc", x>>, <<"query", x>>, <<"config", x>>} \cap failed = {})

Declined ==
    /\ ui.pc \in {"idle", "second_confirm"}
    /\ ui'.answers # <<>> /\ ui'.answers[Len(ui'.answers)] = "No"
    /\ <<ui'.answers, ui'.pc>> # <<ui.answers, ui.pc>>

\* C30: apply_max_performance_profile is called only by a handler whose two
\* dialogs both returned Yes, apply_performance_profile only by one whose
\* dialog returned Yes; when a dialog returns anything else the handler
\* returns: nothing is called, the targets and the backup roots stay as they
\* are and the summary labels keep their text.
C30_ConfirmationGating ==
    [][ /\ Step("apply_max") => ui.pc = "apply_max" /\ ui.answers = <<"Yes", "Yes">>
        /\ Step("apply_performance")
              => ui.pc = "apply_performance" /\ ui.answers = <<"Yes">>
        /\ Declined
              => /\ ui'.pc = "idle"
                 /\ UNCHANGED <<calls, Targets, perfRoot, maxRoot, safeRoot>>
                 /\ ui'.performance_summary = ui.performance_summary
                 /\ ui'.max_summary = ui.max_summary ]_vars

\* Max Performance was applied after two Yes and its summary shown; a later
\* click was confirmed once and then declined
C30_Witness ==
    /\ Len(calls) = 1 /\ last.op = "apply_max" /\ ~last.raised
    /\ ui.max_summary # MainWindow.max_summary
    /\ ui.pc = "idle" /\ ui.answers = <<"Yes", "No">>

====
